---- MODULE Spec2Model ----
(***************************************************************************)
(* A model of the schema registry (source/schema.ts) and of the entity     *)
(* materializer (source/entities/inputer.ts) of singleware/mapping.        *)
(*                                                                         *)
(* JavaScript values are represented as follows.                           *)
(*   - undefined is the string Undef; an optional boolean flag of a column *)
(*     (required, hidden, readOnly, writeOnly, unique, multiple, all) is a *)
(*     BOOLEAN whose FALSE stands for every falsy value, since the code    *)
(*     only ever tests these flags for truthiness;                         *)
(*   - an object used as a map with insertion-ordered keys (storage.real,  *)
(*     storage.virtual, a row) is a sequence of columns with distinct      *)
(*     names, in insertion order;                                          *)
(*   - the WeakMap of storages is a function whose domain is the set of    *)
(*     registered models;                                                  *)
(*   - a regular expression is a record [kind, text]; only the anchored    *)
(*     pattern ^text$ built by assignColumn and the catch-all .* occur;    *)
(*   - a column's filter is the record [pre, query]: Join stores its match *)
(*     as filter.pre, JoinAll stores its query filter as the filter;       *)
(*   - the call stack of a running materialization is the sequence calls   *)
(*     of its active calls, the innermost last.                            *)
(***************************************************************************)
EXTENDS Integers, Sequences, FiniteSets, TLC

VARIABLES storages, last, result, steps, calls

vars == <<storages, last, result, steps, calls>>

(***************************************************************************)
(* Bounds and the small sets the inputs are drawn from.                    *)
(***************************************************************************)
MaxSteps == 3

Undef == "undefined"

Models == {"Person", "Address"}

Names == {"a", "b"}

\* Types.View.ALL, the universal wildcard view.
ViewALL == "*"

\* Types.Format
ID == "ID"
NULL == "NULL"
BINARY == "BINARY"
BOOLEANF == "BOOLEAN"
INTEGER == "INTEGER"
DECIMAL == "DECIMAL"
NUMBER == "NUMBER"
STRINGF == "STRING"
ENUMERATION == "ENUMERATION"
PATTERN == "PATTERN"
TIMESTAMP == "TIMESTAMP"
DATE == "DATE"
ARRAY == "ARRAY"
MAP == "MAP"
OBJECT == "OBJECT"

(***************************************************************************)
(* Helpers for objects used as ordered maps.                               *)
(***************************************************************************)
\* name in row
In(name, row) == \E i \in 1..Len(row) : row[i].name = name

\* the position of row[name]
IndexOf(name, row) == CHOOSE i \in 1..Len(row) : row[i].name = name

\* row[name]
Get(name, row) == row[IndexOf(name, row)]

\* formats.includes(format)
Includes(list, x) == \E i \in 1..Len(list) : list[i] = x

\* Object.assign(target, properties) and {...target, ...properties}: every
\* key of properties overwrites the one of target.
ObjectAssign(target, properties) ==
  [k \in DOMAIN target |->
     IF k \in DOMAIN properties THEN properties[k] ELSE target[k]]

\* RegExp.prototype.test. The pattern ^text$ holds its text unescaped: a text
\* without metacharacter is matched literally, while "$", the one text with a
\* metacharacter the model draws from, is a second end-of-input assertion, so
\* that ^$$ matches the empty string alone.
RegExpTest(re, text) ==
  CASE re.kind = "exact" -> IF re.text = "$" THEN text = "" ELSE text = re.text
    [] re.kind = "any" -> TRUE
    [] OTHER -> FALSE

\* new RegExp(`^${name}$`): the name is placed in the pattern as it is.
ExactRegExp(name) == [kind |-> "exact", text |-> name]

(***************************************************************************)
(* Columns and storages.                                                   *)
(***************************************************************************)
\* A column object none of whose optional properties is set.
EmptyColumn ==
  [type |-> Undef, name |-> Undef, views |-> <<>>, formats |-> <<>>,
   validations |-> <<>>, alias |-> Undef, converter |-> Undef,
   required |-> FALSE, hidden |-> FALSE, readOnly |-> FALSE,
   writeOnly |-> FALSE, unique |-> FALSE, minimum |-> Undef,
   maximum |-> Undef, pattern |-> Undef, values |-> <<>>, model |-> Undef,
   local |-> Undef, foreign |-> Undef, multiple |-> FALSE,
   filter |-> [pre |-> Undef, query |-> Undef], all |-> FALSE]

\* An operation's outcome on the registry: the storages it leaves behind, the
\* error it threw ("none" when it returned) and the column it returned.
Outcome(st, error, column) == [storages |-> st, error |-> error, column |-> column]

\* No properties: assignStorage(model) and assignColumn(model, type, name).
NoProperties == <<>>

\* The value of a call that returned nothing, or threw.
Nothing == [t |-> "undefined", s |-> "", v |-> <<>>]

\* assignStorage clearing the primary of the storage it assigns to.
assignStorageAnew(st, model, properties) ==
  IF model \in DOMAIN st
    THEN [st EXCEPT ![model] = ObjectAssign([@ EXCEPT !.primary = Undef], properties)]
    ELSE (model :> ObjectAssign([name |-> model, primary |-> Undef,
                                 real |-> <<>>, virtual |-> <<>>], properties))
         @@ st

\* Schema.assignStorage
assignStorage(st, model, properties) ==
  IF model \in DOMAIN st
    THEN [st EXCEPT ![model] = ObjectAssign(@, properties)]
    ELSE (model :> ObjectAssign([name |-> model, primary |-> Undef,
                                 real |-> <<>>, virtual |-> <<>>], properties))
         @@ st

\* assignColumn without its two checks of the other kind's map.
assignColumnUnchecked(st0, model, type, name, properties) ==
  LET st == assignStorage(st0, model, NoProperties)
      row == st[model][type]
      column == IF In(name, row)
                  THEN ObjectAssign(Get(name, row), properties)
                  ELSE [ObjectAssign(EmptyColumn, properties) EXCEPT
                          !.type = type, !.name = name,
                          !.views = <<ExactRegExp(name)>>,
                          !.formats = <<>>, !.validations = <<>>]
      newRow == IF In(name, row)
                  THEN [row EXCEPT ![IndexOf(name, row)] = column]
                  ELSE Append(row, column)
  IN Outcome([st EXCEPT ![model][type] = newRow], "none", column)

\* Schema.assignColumn
assignColumn(st0, model, type, name, properties) ==
  LET st == assignStorage(st0, model, NoProperties)
      storage == st[model]
      row == storage[type]
  IN IF type = "real" /\ In(name, storage.virtual)
       THEN Outcome(st, "ColumnKindConflict", EmptyColumn)
     ELSE IF type = "virtual" /\ In(name, storage.real)
       THEN Outcome(st, "ColumnKindConflict", EmptyColumn)
     ELSE
       LET column == IF In(name, row)
                       THEN ObjectAssign(Get(name, row), properties)
                       ELSE [ObjectAssign(EmptyColumn, properties) EXCEPT
                               !.type = type, !.name = name,
                               !.views = <<ExactRegExp(name)>>,
                               !.formats = <<>>, !.validations = <<>>]
           newRow == IF In(name, row)
                       THEN [row EXCEPT ![IndexOf(name, row)] = column]
                       ELSE Append(row, column)
       IN Outcome([st EXCEPT ![model][type] = newRow], "none", column)

\* assignRealOrVirtualColumn creating the real column that does not exist.
assignRealOrVirtualColumnOnDemand(st0, model, name, properties) ==
  LET st == assignStorage(st0, model, NoProperties)
      storage == st[model]
  IN IF In(name, storage.virtual)
       THEN Outcome([st EXCEPT ![model].virtual[IndexOf(name, storage.virtual)] =
                        ObjectAssign(@, properties)], "none", EmptyColumn)
       ELSE assignColumn(st0, model, "real", name, properties)

\* Schema.assignRealOrVirtualColumn
assignRealOrVirtualColumn(st0, model, name, properties) ==
  LET st == assignStorage(st0, model, NoProperties)
      storage == st[model]
  IN IF In(name, storage.virtual)
       THEN Outcome([st EXCEPT ![model].virtual[IndexOf(name, storage.virtual)] =
                        ObjectAssign(@, properties)], "none", EmptyColumn)
     ELSE IF In(name, storage.real)
       THEN LET column == ObjectAssign(Get(name, storage.real), properties)
            IN Outcome([st EXCEPT ![model].real[IndexOf(name, storage.real)] = column],
                       "none", column)
     ELSE Outcome(st, "UnknownColumn", EmptyColumn)

\* addValidation pushing the format without its validator.
addValidationOfFormat(st, model, column, validator, format) ==
  LET type == column.type
      i == IndexOf(column.name, st[model][type])
  IN [st EXCEPT ![model][type][i].formats = Append(@, format)]

\* Schema.addValidation: the format and its validator are pushed on the two
\* lists of the registry's column. (The property descriptor it wraps belongs to
\* the entity class, not to the registry, and is not modelled.)
addValidation(st, model, column, validator, format) ==
  LET type == column.type
      i == IndexOf(column.name, st[model][type])
  IN [st EXCEPT ![model][type][i].formats = Append(@, format),
                ![model][type][i].validations = Append(@, validator)]

\* return this.addValidation(scope, this.assignColumn(...), validator, format):
\* an error thrown by assignColumn propagates before anything is pushed.
Validated(model, out, validator, format) ==
  IF out.error # "none"
    THEN out
    ELSE LET st == addValidation(out.storages, model, out.column, validator, format)
         IN Outcome(st, "none", Get(out.column.name, st[model][out.column.type]))

\* isEntity requiring a real column of the storage.
isEntityWithColumns(st, model) == model \in DOMAIN st /\ st[model].real # <<>>

\* Schema.isEntity
isEntity(st, model) == model \in DOMAIN st

\* isView without the wildcard.
isViewUnlessWildcard(column, views) ==
  \E i \in 1..Len(views) :
    \E j \in 1..Len(column.views) : RegExpTest(column.views[j], views[i])

\* Schema.isView
isView(column, views) ==
  \E i \in 1..Len(views) :
    \/ views[i] = ViewALL
    \/ \E j \in 1..Len(column.views) : RegExpTest(column.views[j], views[i])

\* The columns of a row that pass a test, in the row's order.
RECURSIVE FilterRow(_, _)
FilterRow(row, views) ==
  IF row = <<>> THEN <<>>
  ELSE IF isView(Head(row), views)
    THEN <<Head(row)>> \o FilterRow(Tail(row), views)
    ELSE FilterRow(Tail(row), views)

\* getRealRow returning the empty row for a model that has no storage.
getRealRowOfAny(st, model, views) ==
  IF model \notin DOMAIN st
    THEN [error |-> "none", row |-> <<>>]
    ELSE [error |-> "none", row |-> FilterRow(st[model].real, views)]

\* Schema.getRealRow: [error, row]
getRealRow(st, model, views) ==
  IF model \notin DOMAIN st
    THEN [error |-> "InvalidModel", row |-> <<>>]
    ELSE [error |-> "none", row |-> FilterRow(st[model].real, views)]

\* Schema.getVirtualRow: [error, row]
getVirtualRow(st, model, views) ==
  IF model \notin DOMAIN st
    THEN [error |-> "InvalidModel", row |-> <<>>]
    ELSE [error |-> "none", row |-> FilterRow(st[model].virtual, views)]

\* Schema.getRealColumn: [error, column]
getRealColumn(st, model, name) ==
  IF model \notin DOMAIN st
    THEN [error |-> "InvalidModel", column |-> EmptyColumn]
  ELSE IF ~In(name, st[model].real)
    THEN [error |-> "UnknownColumn", column |-> EmptyColumn]
  ELSE [error |-> "none", column |-> Get(name, st[model].real)]

\* Schema.getPrimaryColumn: [error, column]
getPrimaryColumn(st, model) ==
  IF model \notin DOMAIN st
    THEN [error |-> "InvalidModel", column |-> EmptyColumn]
  ELSE IF st[model].primary = Undef
    THEN [error |-> "MissingPrimary", column |-> EmptyColumn]
  ELSE getRealColumn(st, model, st[model].primary)

\* Schema.getStorage: [error, name]
getStorage(st, model) ==
  IF model \notin DOMAIN st
    THEN [error |-> "InvalidModel", name |-> Undef]
    ELSE [error |-> "none", name |-> st[model].name]

(***************************************************************************)
(* The declarative operations. Each action is one application of the       *)
(* decorator the operation returns, to a property of a model (Entity: to   *)
(* the model).                                                             *)
(***************************************************************************)
\* The small sets the decorators' arguments are drawn from.
StorageNames == {"store"}

Aliases == {"alias"}

Converters == {"callback"}

ViewLists == {<<[kind |-> "any", text |-> ""]>>, <<ExactRegExp("public")>>}

Ranges == {<<Undef, Undef>>, <<"0", "9">>}

Enumerations == {<<"x", "y">>}

Patterns == {"regexp"}

Matches == {Undef}

\* The value a caller holds from its last call, after a decorator has run. A
\* row or column it holds is a frozen shallow copy (see the read API below):
\* the formats and validations of each copy are the arrays of the registry's
\* column, on which addValidation pushes, so they are what the registry holds
\* now; every other property is the copy's own. Views gives the registry's
\* column a new views array: the copy keeps the old one, no longer shared.
Held(value, op, model, property, out) ==
  IF value.t # "row"
    THEN value
    ELSE LET map == out.storages[value.model][value.type]
         IN [value EXCEPT
               !.v = [i \in 1..Len(value.v) |->
                        [value.v[i] EXCEPT
                           !.formats = Get(value.v[i].name, map).formats,
                           !.validations = Get(value.v[i].name, map).validations]],
               !.shared = [i \in 1..Len(value.v) |->
                             /\ value.shared[i]
                             /\ ~(/\ op = "Views"
                                  /\ out.error = "none"
                                  /\ model = value.model
                                  /\ property = value.v[i].name)]]

\* A decorator has run: the registry is what it left behind, also when it threw.
Declare(op, model, property, out) ==
  /\ steps < MaxSteps
  /\ storages' = out.storages
  /\ last' = [op |-> op, model |-> model, property |-> property,
              error |-> out.error, input |-> Nothing]
  /\ result' = Held(result, op, model, property, out)
  /\ steps' = steps + 1
  /\ calls' = calls

\* Schema.Entity
Entity(model, name) ==
  Declare("Entity", model, Undef,
          Outcome(assignStorage(storages, model, [name |-> name]), "none", EmptyColumn))

\* Schema.Alias
Alias(model, property, name) ==
  Declare("Alias", model, property,
          assignColumn(storages, model, "real", property, [alias |-> name]))

\* Schema.Views
Views(model, property, views) ==
  Declare("Views", model, property,
          assignRealOrVirtualColumn(storages, model, property, [views |-> views]))

\* Schema.Convert
Convert(model, property, callback) ==
  Declare("Convert", model, property,
          assignRealOrVirtualColumn(storages, model, property, [converter |-> callback]))

\* Schema.Required
Required(model, property) ==
  Declare("Required", model, property,
          assignRealOrVirtualColumn(storages, model, property, [required |-> TRUE]))

\* Schema.Hidden
Hidden(model, property) ==
  Declare("Hidden", model, property,
          assignRealOrVirtualColumn(storages, model, property, [hidden |-> TRUE]))

\* Schema.ReadOnly
ReadOnly(model, property) ==
  LET out == assignColumn(storages, model, "real", property, [readOnly |-> TRUE])
  IN Declare("ReadOnly", model, property,
             IF out.error = "none" /\ out.column.writeOnly
               THEN Outcome(out.storages, "ReadWriteConflict", out.column)
               ELSE out)

\* WriteOnly without its check of readOnly.
WriteOnlyUnchecked(model, property) ==
  Declare("WriteOnly", model, property,
          assignColumn(storages, model, "real", property, [writeOnly |-> TRUE]))

\* Schema.WriteOnly
WriteOnly(model, property) ==
  LET out == assignColumn(storages, model, "real", property, [writeOnly |-> TRUE])
  IN Declare("WriteOnly", model, property,
             IF out.error = "none" /\ out.column.readOnly
               THEN Outcome(out.storages, "ReadWriteConflict", out.column)
               ELSE out)

\* alias || name
AliasOrName(column) == IF column.alias # Undef THEN column.alias ELSE column.name

\* Join without the resolution of the foreign column.
JoinUnresolved(localModel, property, foreign, model, local, match) ==
  LET localSchema == getRealColumn(storages, localModel, local)
      multiple == Includes(localSchema.column.formats, ARRAY)
  IN Declare("Join", localModel, property,
       IF localSchema.error # "none"
         THEN Outcome(storages, localSchema.error, EmptyColumn)
       ELSE Validated(localModel,
              assignColumn(storages, localModel, "virtual", property,
                [local |-> AliasOrName(localSchema.column),
                 foreign |-> foreign,
                 multiple |-> multiple,
                 model |-> model,
                 filter |-> [pre |-> match, query |-> Undef]]),
              "InstanceOf", IF multiple THEN ARRAY ELSE OBJECT))

\* Schema.Join
Join(localModel, property, foreign, model, local, match) ==
  LET localSchema == getRealColumn(storages, localModel, local)
      foreignSchema == getRealColumn(storages, model, foreign)
      multiple == Includes(localSchema.column.formats, ARRAY)
  IN Declare("Join", localModel, property,
       IF localSchema.error # "none"
         THEN Outcome(storages, localSchema.error, EmptyColumn)
       ELSE IF foreignSchema.error # "none"
         THEN Outcome(storages, foreignSchema.error, EmptyColumn)
       ELSE Validated(localModel,
              assignColumn(storages, localModel, "virtual", property,
                [local |-> AliasOrName(localSchema.column),
                 foreign |-> AliasOrName(foreignSchema.column),
                 multiple |-> multiple,
                 model |-> model,
                 filter |-> [pre |-> match, query |-> Undef]]),
              "InstanceOf", IF multiple THEN ARRAY ELSE OBJECT))

\* JoinAll taking multiple from all.
JoinAllMultiple(localModel, property, foreign, model, local, filter) ==
  LET localSchema == getRealColumn(storages, localModel, local)
      foreignSchema == getRealColumn(storages, model, foreign)
  IN Declare("JoinAll", localModel, property,
       IF localSchema.error # "none"
         THEN Outcome(storages, localSchema.error, EmptyColumn)
       ELSE IF foreignSchema.error # "none"
         THEN Outcome(storages, foreignSchema.error, EmptyColumn)
       ELSE Validated(localModel,
              assignColumn(storages, localModel, "virtual", property,
                [local |-> AliasOrName(localSchema.column),
                 foreign |-> AliasOrName(foreignSchema.column),
                 multiple |-> TRUE,
                 filter |-> [pre |-> Undef, query |-> filter],
                 model |-> model,
                 all |-> TRUE]),
              "InstanceOf", ARRAY))

\* Schema.JoinAll
JoinAll(localModel, property, foreign, model, local, filter) ==
  LET localSchema == getRealColumn(storages, localModel, local)
      foreignSchema == getRealColumn(storages, model, foreign)
  IN Declare("JoinAll", localModel, property,
       IF localSchema.error # "none"
         THEN Outcome(storages, localSchema.error, EmptyColumn)
       ELSE IF foreignSchema.error # "none"
         THEN Outcome(storages, foreignSchema.error, EmptyColumn)
       ELSE Validated(localModel,
              assignColumn(storages, localModel, "virtual", property,
                [local |-> AliasOrName(localSchema.column),
                 foreign |-> AliasOrName(foreignSchema.column),
                 multiple |-> Includes(localSchema.column.formats, ARRAY),
                 filter |-> [pre |-> Undef, query |-> filter],
                 model |-> model,
                 all |-> TRUE]),
              "InstanceOf", ARRAY))

\* Schema.Primary
Primary(model, property) ==
  Declare("Primary", model, property,
          Outcome(assignStorage(storages, model, [primary |-> property]),
                  "none", EmptyColumn))

\* Schema.Id
Id(model, property) ==
  Declare("Id", model, property,
    Validated(model, assignColumn(storages, model, "real", property, NoProperties),
              "Any", ID))

\* Schema.Null
Null(model, property) ==
  Declare("Null", model, property,
    Validated(model, assignColumn(storages, model, "real", property, NoProperties),
              "Null", NULL))

\* Schema.Binary
Binary(model, property) ==
  Declare("Binary", model, property,
    Validated(model, assignColumn(storages, model, "real", property, NoProperties),
              "Any", BINARY))

\* Schema.Boolean
Boolean(model, property) ==
  Declare("Boolean", model, property,
    Validated(model, assignColumn(storages, model, "real", property, NoProperties),
              "Boolean", BOOLEANF))

\* Schema.Integer
Integer(model, property, minimum, maximum) ==
  Declare("Integer", model, property,
    Validated(model, assignColumn(storages, model, "real", property,
                                  [minimum |-> minimum, maximum |-> maximum]),
              "Integer", INTEGER))

\* Schema.Decimal
Decimal(model, property, minimum, maximum) ==
  Declare("Decimal", model, property,
    Validated(model, assignColumn(storages, model, "real", property,
                                  [minimum |-> minimum, maximum |-> maximum]),
              "Decimal", DECIMAL))

\* Schema.Number
Number(model, property, minimum, maximum) ==
  Declare("Number", model, property,
    Validated(model, assignColumn(storages, model, "real", property,
                                  [minimum |-> minimum, maximum |-> maximum]),
              "Number", NUMBER))

\* Schema.String
String(model, property, minimum, maximum) ==
  Declare("String", model, property,
    Validated(model, assignColumn(storages, model, "real", property,
                                  [minimum |-> minimum, maximum |-> maximum]),
              "String", STRINGF))

\* Schema.Enumeration
Enumeration(model, property, values) ==
  Declare("Enumeration", model, property,
    Validated(model, assignColumn(storages, model, "real", property, [values |-> values]),
              "Enumeration", ENUMERATION))

\* Schema.Pattern
Pattern(model, property, pattern) ==
  Declare("Pattern", model, property,
    Validated(model, assignColumn(storages, model, "real", property, [pattern |-> pattern]),
              "Pattern", PATTERN))

\* Schema.Timestamp
Timestamp(model, property) ==
  Declare("Timestamp", model, property,
    Validated(model, assignColumn(storages, model, "real", property, NoProperties),
              "Timestamp", TIMESTAMP))

\* Schema.Date
Date(model, property) ==
  Declare("Date", model, property,
    Validated(model, assignColumn(storages, model, "real", property, NoProperties),
              "Timestamp", DATE))

\* Schema.Array (unique, minimum and maximum are passed as undefined)
Array(scope, property, model) ==
  Declare("Array", scope, property,
    Validated(scope, assignColumn(storages, scope, "real", property,
                                  [model |-> model, unique |-> FALSE,
                                   minimum |-> Undef, maximum |-> Undef]),
              "InstanceOf", ARRAY))

\* Schema.Map
Map(scope, property, model) ==
  Declare("Map", scope, property,
    Validated(scope, assignColumn(storages, scope, "real", property, [model |-> model]),
              "InstanceOf", MAP))

\* Schema.Object
Object(scope, property, model) ==
  Declare("Object", scope, property,
    Validated(scope, assignColumn(storages, scope, "real", property, [model |-> model]),
              "InstanceOf", OBJECT))

(***************************************************************************)
(* The read API, called by code outside the registry. A returned column is *)
(* Object.freeze({...column}): a frozen shallow copy, whose formats,       *)
(* validations and views are the registry's own arrays. result holds what  *)
(* the last call returned; shared tells, for each copy, whether its views   *)
(* are still the array of the registry's column.                           *)
(***************************************************************************)
Row(model, type, columns) ==
  [t |-> "row", model |-> model, type |-> type, v |-> columns,
   shared |-> [i \in 1..Len(columns) |-> TRUE]]

Column(model, column) ==
  [t |-> "row", model |-> model, type |-> column.type, v |-> <<column>>,
   shared |-> <<TRUE>>]

\* The views a call was given, as the value last.input records.
ViewsInput(views) ==
  [t |-> "array", s |-> "",
   v |-> [i \in 1..Len(views) |->
            [k |-> "", v |-> [t |-> "string", s |-> views[i], v |-> <<>>]]]]

\* A call of the read API, given input, has returned value, or thrown error.
Read(op, model, property, input, error, value) ==
  /\ steps < MaxSteps
  /\ storages' = storages
  /\ last' = [op |-> op, model |-> model, property |-> property,
              error |-> error, input |-> input]
  /\ result' = IF error = "none" THEN value ELSE Nothing
  /\ steps' = steps + 1
  /\ calls' = calls

\* a call of Schema.getRealRow
ReadRealRow(model, views) ==
  LET got == getRealRow(storages, model, views)
  IN Read("getRealRow", model, Undef, ViewsInput(views), got.error,
          Row(model, "real", got.row))

\* a call of Schema.getVirtualRow
ReadVirtualRow(model, views) ==
  LET got == getVirtualRow(storages, model, views)
  IN Read("getVirtualRow", model, Undef, ViewsInput(views), got.error,
          Row(model, "virtual", got.row))

\* a call of Schema.getRealColumn
ReadRealColumn(model, name) ==
  LET got == getRealColumn(storages, model, name)
  IN Read("getRealColumn", model, name, Nothing, got.error, Column(model, got.column))

\* a call of Schema.getPrimaryColumn
ReadPrimaryColumn(model) ==
  LET got == getPrimaryColumn(storages, model)
  IN Read("getPrimaryColumn", model, Undef, Nothing, got.error,
          Column(model, got.column))

\* a call of Schema.getStorage (getStorageName in the released typings)
ReadStorage(model) ==
  LET got == getStorage(storages, model)
  IN Read("getStorage", model, Undef, Nothing, got.error,
          [t |-> "string", s |-> got.name, v |-> <<>>])

\* What a caller can do to a column it was returned.
Mutations == {"assign", "formats.push", "validations.push", "views.push"}

\* list.push(x), for the list a mutation names
Pushed(column, how) ==
  CASE how = "formats.push" -> [column EXCEPT !.formats = Append(@, ARRAY)]
    [] how = "validations.push" -> [column EXCEPT !.validations = Append(@, "Any")]
    [] how = "views.push" -> [column EXCEPT !.views = Append(@, ExactRegExp("public"))]
    [] OTHER -> column

\* The caller mutates the i-th column of the row (or the column) the last read
\* returned. Assigning a property of the frozen copy changes nothing; a push
\* on one of its lists is a push on the array the registry's column holds.
CallerMutates(i, how) ==
  /\ steps < MaxSteps
  /\ result.t = "row"
  /\ i \in 1..Len(result.v)
  /\ LET model == result.model
         type == result.type
         name == result.v[i].name
         at == IndexOf(name, storages[model][type])
     IN /\ storages' = IF how = "views.push" /\ ~result.shared[i]
                          THEN storages
                          ELSE [storages EXCEPT ![model][type][at] = Pushed(@, how)]
        /\ result' = [result EXCEPT !.v[i] = Pushed(@, how)]
        /\ last' = [op |-> "mutate", model |-> model, property |-> name,
                    error |-> "none", input |-> Nothing]
  /\ steps' = steps + 1
  /\ calls' = calls

(***************************************************************************)
(* The entity materializer (Inputer). Input and output values are records  *)
(* of one shape: a tag t, a string s and the properties v, the keys and    *)
(* values in insertion order. A string has its text in s; the elements of  *)
(* an array are its properties, under the empty key; an entity is an       *)
(* instance of the model s with the fields assigned to it; an error is the *)
(* error a call threw, of the kind s; Nothing is undefined.                *)
(***************************************************************************)
Str(text) == [t |-> "string", s |-> text, v |-> <<>>]

Arr(values) ==
  [t |-> "array", s |-> "", v |-> [i \in 1..Len(values) |-> [k |-> "", v |-> values[i]]]]

Obj(pairs) == [t |-> "object", s |-> "", v |-> pairs]

Ent(model, pairs) == [t |-> "entity", s |-> model, v |-> pairs]

Err(kind) == [t |-> "error", s |-> kind, v |-> <<>>]

\* The elements of an array, in order.
Elements(value) == [i \in 1..Len(value.v) |-> value.v[i].v]

\* value instanceof Array
IsArray(value) == value.t = "array"

\* value instanceof Object
IsObject(value) == value.t \in {"array", "object", "entity"}

\* name in object
Has(value, name) ==
  /\ value.t \in {"object", "entity"}
  /\ \E i \in 1..Len(value.v) : value.v[i].k = name

\* object[name]: undefined when the value has no such property
Prop(value, name) ==
  IF Has(value, name)
    THEN value.v[CHOOSE i \in 1..Len(value.v) : value.v[i].k = name].v
    ELSE Nothing

\* The field "<column>.<rest>", for the names the model draws from.
Dotted(column, rest) ==
  CASE column = "a" /\ rest = "a" -> "a.a"
    [] column = "a" /\ rest = "b" -> "a.b"
    [] column = "b" /\ rest = "a" -> "b.a"
    [] column = "b" /\ rest = "b" -> "b.b"
    [] OTHER -> Undef

\* Columns.Helper.getNestedFields: the <rest> of every field "<column>.<rest>".
RECURSIVE getNestedFields(_, _)
getNestedFields(schema, fields) ==
  IF fields = <<>> THEN <<>>
  ELSE LET rests == {rest \in Names : Dotted(schema.name, rest) = Head(fields)}
       IN (IF rests = {} THEN <<>> ELSE <<CHOOSE rest \in rests : TRUE>>)
          \o getNestedFields(schema, Tail(fields))

\* Helper.getEntityModel
getEntityModel(model) == model

\* schema.caster(entry, Types.Cast.Input): the column's converter applied in the
\* input direction, the identity when the column declares none.
caster(schema, entry) ==
  IF schema.converter = Undef
    THEN entry
    ELSE [t |-> "cast", s |-> schema.converter, v |-> <<[k |-> "", v |-> entry]>>]

RECURSIVE createEntity(_, _, _, _, _)
RECURSIVE createEntityColumns(_, _, _, _, _, _, _)
RECURSIVE createValue(_, _, _, _, _, _)
RECURSIVE createArrayEntity(_, _, _, _, _, _)
RECURSIVE createMapEntity(_, _, _, _, _, _)

\* createArrayEntity walking the sequences at every depth.
RECURSIVE createArrayEntityDeep(_, _, _, _, _, _)
createArrayEntityDeep(st, model, entries, fields, required, multiple) ==
  IF entries = <<>> THEN Arr(<<>>)
  ELSE LET entry == Head(entries)
           item == IF multiple /\ IsArray(entry)
                     THEN createArrayEntityDeep(st, model, Elements(entry), fields,
                                                required, multiple)
                     ELSE createEntity(st, model, entry, fields, required)
       IN IF item.t = "error" THEN item
          ELSE LET list == createArrayEntityDeep(st, model, Tail(entries), fields,
                                                 required, multiple)
               IN IF list.t = "error" THEN list ELSE Arr(<<item>> \o Elements(list))

\* Inputer.createArrayEntity (list: the entities pushed so far)
createArrayEntity(st, model, entries, fields, required, multiple) ==
  IF entries = <<>> THEN Arr(<<>>)
  ELSE LET entry == Head(entries)
           item == IF multiple /\ IsArray(entry)
                     THEN createArrayEntity(st, model, Elements(entry), fields,
                                            required, FALSE)
                     ELSE createEntity(st, model, entry, fields, required)
       IN IF item.t = "error" THEN item
          ELSE LET list == createArrayEntity(st, model, Tail(entries), fields,
                                             required, multiple)
               IN IF list.t = "error" THEN list ELSE Arr(<<item>> \o Elements(list))

\* Inputer.createMapEntity (pairs: the properties of the entry still to visit)
createMapEntity(st, model, pairs, fields, required, map) ==
  IF pairs = <<>> THEN Obj(map)
  ELSE LET property == Head(pairs).k
           entity == Head(pairs).v
       IN IF entity.t = "undefined"
            THEN createMapEntity(st, model, Tail(pairs), fields, required, map)
            ELSE LET made == createEntity(st, model, entity, fields, required)
                 IN IF made.t = "error" THEN made
                    ELSE createMapEntity(st, model, Tail(pairs), fields, required,
                                         Append(map, [k |-> property, v |-> made]))

\* Inputer.createValue (Types.Format.Array, Object and Map are the formats the
\* Array, Object and Map decorators push)
createValue(st, model, schema, entry, fields, required) ==
  IF schema.model # Undef /\ isEntity(st, schema.model)
    THEN LET nestedFields == IF Len(fields) > 0
                               THEN getNestedFields(schema, fields)
                               ELSE <<>>
             nestedRequired == required /\ Len(nestedFields) = 0
             nestedModel == getEntityModel(schema.model)
         IN IF IsArray(entry)
              THEN IF Includes(schema.formats, ARRAY)
                     THEN createArrayEntity(st, nestedModel, Elements(entry), nestedFields,
                                            nestedRequired, schema.all)
                     ELSE Err("UnsupportedShape")
            ELSE IF IsObject(entry)
              THEN IF Includes(schema.formats, OBJECT)
                     THEN createEntity(st, nestedModel, entry, nestedFields,
                                       nestedRequired)
                   ELSE IF Includes(schema.formats, MAP)
                     THEN createMapEntity(st, nestedModel, entry.v, nestedFields,
                                          nestedRequired, <<>>)
                   ELSE Err("UnsupportedShape")
            ELSE caster(schema, entry)
    ELSE caster(schema, entry)

\* Inputer.createEntity, the loop over the columns of the row (entity: the
\* fields assigned so far)
createEntityColumns(st, model, columns, entry, fields, required, entity) ==
  IF columns = <<>> THEN Ent(model, entity)
  ELSE LET schema == Head(columns)
           name == schema.name
           value == Prop(entry, schema.name)
       IN IF value.t = "undefined"
            THEN IF required /\ schema.required /\ ~schema.readOnly
                   THEN Err("MissingRequiredField")
                   ELSE createEntityColumns(st, model, Tail(columns), entry, fields,
                                            required, entity)
          ELSE IF schema.readOnly
            THEN Err("ReadOnlyViolation")
          ELSE LET made == createValue(st, model, schema, value, fields, required)
               IN IF made.t = "error" THEN made
                  ELSE createEntityColumns(st, model, Tail(columns), entry, fields,
                         required,
                         IF made.t = "undefined"
                           THEN entity
                           ELSE Append(entity, [k |-> name, v |-> made]))

\* Inputer.createEntity
createEntity(st, model, entry, fields, required) ==
  LET columns == getRealRow(st, model, fields)
  IN IF columns.error # "none"
       THEN Err(columns.error)
       ELSE createEntityColumns(st, model, columns.row, entry, fields, required, <<>>)

\* Inputer.createValue, applied as createEntity applies it: to a column of the
\* model, the value the input has for it, the fields and the strictness.
CreateValue(model, type, name, entry, fields, required) ==
  /\ steps < MaxSteps
  /\ model \in DOMAIN storages
  /\ In(name, storages[model][type])
  /\ LET value == createValue(storages, model, Get(name, storages[model][type]),
                              entry, fields, required)
     IN /\ last' = [op |-> "createValue", model |-> model, property |-> name,
                    error |-> IF value.t = "error" THEN value.s ELSE "none",
                    input |-> entry]
        /\ result' = IF value.t = "error" THEN Nothing ELSE value
  /\ storages' = storages
  /\ steps' = steps + 1
  /\ calls' = calls

\* A call of the materializer that registers the model it is given.
MaterializeRegistering(op, model, input, value) ==
  /\ steps < MaxSteps
  /\ storages' = assignStorage(storages, model, NoProperties)
  /\ last' = [op |-> op, model |-> model, property |-> Undef,
              error |-> IF value.t = "error" THEN value.s ELSE "none",
              input |-> input]
  /\ result' = IF value.t = "error" THEN Nothing ELSE value
  /\ steps' = steps + 1
  /\ calls' = calls

\* A call of the materializer has returned value, or thrown the error it is.
\* The materializer reads the registry through Schema.isEntity and
\* Schema.getRealRow alone and reads its input without assigning to it.
Materialize(op, model, input, value) ==
  /\ steps < MaxSteps
  /\ storages' = storages
  /\ last' = [op |-> op, model |-> model, property |-> Undef,
              error |-> IF value.t = "error" THEN value.s ELSE "none",
              input |-> input]
  /\ result' = IF value.t = "error" THEN Nothing ELSE value
  /\ steps' = steps + 1
  /\ calls' = calls

\* create requiring, as createFull does, the required columns, of every column.
createRequiring(model, entry) ==
  Materialize("create", model, entry,
              createEntity(storages, model, entry, <<ViewALL>>, TRUE))

\* Inputer.create
create(model, entry) ==
  Materialize("create", model, entry, createEntity(storages, model, entry, <<>>, FALSE))

\* createArray of the first entry alone.
createArrayOfFirst(model, entries) ==
  Materialize("createArray", model, Arr(entries),
              createArrayEntity(storages, model, <<Head(entries)>>, <<>>, FALSE, FALSE))

\* Inputer.createArray
createArray(model, entries) ==
  Materialize("createArray", model, Arr(entries),
              createArrayEntity(storages, model, entries, <<>>, FALSE, FALSE))

\* Inputer.createMap
createMap(model, entry) ==
  Materialize("createMap", model, entry,
              createMapEntity(storages, model, entry.v, <<>>, FALSE, <<>>))

\* Inputer.createFull
createFull(model, data) ==
  Materialize("createFull", model, data, createEntity(storages, model, data, <<>>, TRUE))

\* Inputer.createFullArray
createFullArray(model, entries) ==
  Materialize("createFullArray", model, Arr(entries),
              createArrayEntity(storages, model, entries, <<>>, TRUE, FALSE))

\* Inputer.createFullMap
createFullMap(model, entry) ==
  Materialize("createFullMap", model, entry,
              createMapEntity(storages, model, entry.v, <<>>, TRUE, <<>>))

(***************************************************************************)
(* The materializer, call by call. calls holds the active calls of         *)
(* createEntity, createArrayEntity and createMapEntity, the innermost      *)
(* last; each is the function, its arguments and the position at of its    *)
(* loop: the index of the column, element or property it visits next.      *)
(* createValue, which has no loop, is part of the step of the createEntity *)
(* that calls it. The values built are those of the operators above.       *)
(***************************************************************************)
\* A call of one of the three functions, at the start of its loop.
Frame(fn, model, value, fields, required, multiple) ==
  [fn |-> fn, model |-> model, value |-> value, fields |-> fields,
   required |-> required, multiple |-> multiple, at |-> 1]

\* What a step makes of the stack: the calls it leaves, and the error it threw.
Leaves(stack, error) == [calls |-> stack, error |-> error]

\* throw: the error unwinds every active call (the materializer catches none).
Throw(error) == Leaves(<<>>, error)

\* The loop of the innermost call goes on to its next position.
Continue(outer, top) == Leaves(Append(outer, [top EXCEPT !.at = @ + 1]), "none")

\* The innermost call calls: its loop resumes at the next position once the
\* call has returned.
Call(outer, top, frame) ==
  Leaves(Append(outer, [top EXCEPT !.at = @ + 1]) \o <<frame>>, "none")

\* createEntity passing its whole entry down for the column.
ValueOfEntry(entry, schema) == entry

\* The value createEntity passes down for a column: entry[schema.name].
ValueOf(entry, schema) == Prop(entry, schema.name)

\* Inputer.createValue, as a step of the createEntity that calls it
ValueStep(outer, top, schema, value) ==
  IF schema.model # Undef /\ isEntity(storages, schema.model)
    THEN LET nestedFields == IF Len(top.fields) > 0
                               THEN getNestedFields(schema, top.fields)
                               ELSE <<>>
             nestedRequired == top.required /\ Len(nestedFields) = 0
             nestedModel == getEntityModel(schema.model)
         IN IF IsArray(value)
              THEN IF Includes(schema.formats, ARRAY)
                     THEN Call(outer, top,
                               Frame("createArrayEntity", nestedModel, value,
                                     nestedFields, nestedRequired, schema.all))
                     ELSE Throw("UnsupportedShape")
            ELSE IF IsObject(value)
              THEN IF Includes(schema.formats, OBJECT)
                     THEN Call(outer, top,
                               Frame("createEntity", nestedModel, value,
                                     nestedFields, nestedRequired, FALSE))
                   ELSE IF Includes(schema.formats, MAP)
                     THEN Call(outer, top,
                               Frame("createMapEntity", nestedModel, value,
                                     nestedFields, nestedRequired, FALSE))
                   ELSE Throw("UnsupportedShape")
            ELSE Continue(outer, top)
    ELSE Continue(outer, top)

\* Inputer.createEntity: one turn of its loop over the columns of the row
EntityStep(outer, top) ==
  LET columns == getRealRow(storages, top.model, top.fields)
  IN IF columns.error # "none" THEN Throw(columns.error)
     ELSE IF top.at > Len(columns.row) THEN Leaves(outer, "none")
     ELSE LET schema == columns.row[top.at]
              value == ValueOf(top.value, schema)
          IN IF value.t = "undefined"
               THEN IF top.required /\ schema.required /\ ~schema.readOnly
                      THEN Throw("MissingRequiredField")
                      ELSE Continue(outer, top)
             ELSE IF schema.readOnly THEN Throw("ReadOnlyViolation")
             ELSE ValueStep(outer, top, schema, value)

\* Inputer.createArrayEntity: one turn of its loop over the entries
ArrayStep(outer, top) ==
  IF top.at > Len(top.value.v) THEN Leaves(outer, "none")
  ELSE LET entry == top.value.v[top.at].v
       IN IF top.multiple /\ IsArray(entry)
            THEN Call(outer, top,
                      Frame("createArrayEntity", top.model, entry, top.fields,
                            top.required, FALSE))
            ELSE Call(outer, top,
                      Frame("createEntity", top.model, entry, top.fields,
                            top.required, FALSE))

\* Inputer.createMapEntity: one turn of its loop over the properties
MapStep(outer, top) ==
  IF top.at > Len(top.value.v) THEN Leaves(outer, "none")
  ELSE LET entity == top.value.v[top.at].v
       IN IF entity.t = "undefined"
            THEN Continue(outer, top)
            ELSE Call(outer, top,
                      Frame("createEntity", top.model, entity, top.fields,
                            top.required, FALSE))

\* The running materialization takes its next step: the innermost call visits
\* the next position of its loop, or returns at the end of it.
Run ==
  /\ calls # <<>>
  /\ LET top == calls[Len(calls)]
         outer == SubSeq(calls, 1, Len(calls) - 1)
         out == CASE top.fn = "createEntity" -> EntityStep(outer, top)
                  [] top.fn = "createArrayEntity" -> ArrayStep(outer, top)
                  [] top.fn = "createMapEntity" -> MapStep(outer, top)
     IN /\ calls' = out.calls
        /\ last' = [last EXCEPT !.error = out.error]
  /\ UNCHANGED <<storages, result, steps>>

\* A materialization starts: code outside calls one of the public methods, or
\* createEntity is applied with a list of fields.
Start(op, frame) ==
  /\ steps < MaxSteps
  /\ calls = <<>>
  /\ calls' = <<frame>>
  /\ last' = [op |-> op, model |-> frame.model, property |-> Undef,
              error |-> "none", input |-> frame.value]
  /\ result' = Nothing
  /\ storages' = storages
  /\ steps' = steps + 1

\* The calls of the public methods, as they start
StartCreate(model, entry) ==
  Start("create", Frame("createEntity", model, entry, <<>>, FALSE, FALSE))

StartCreateFull(model, data) ==
  Start("createFull", Frame("createEntity", model, data, <<>>, TRUE, FALSE))

StartCreateArray(model, entries) ==
  Start("createArray", Frame("createArrayEntity", model, Arr(entries), <<>>, FALSE, FALSE))

StartCreateMap(model, entry) ==
  Start("createMap", Frame("createMapEntity", model, entry, <<>>, FALSE, FALSE))

\* createEntity applied to a list of fields
StartCreateEntity(model, entry, fields, required) ==
  Start("createEntity", Frame("createEntity", model, entry, fields, required, FALSE))

(***************************************************************************)
(* Specifications.                                                         *)
(***************************************************************************)
Init ==
  /\ storages = <<>>
  /\ last = [op |-> "none", model |-> Undef, property |-> Undef, error |-> "none",
             input |-> Nothing]
  /\ result = Nothing
  /\ steps = 0
  /\ calls = <<>>

\* Join and JoinAll: the foreign column, the foreign model and the local column.
JoinArgs == {<<"a", "Person", "a">>, <<"a", "Address", "a">>}

\* The views a row is read with.
RowViews == {<<ViewALL>>}

\* The declaration phase: the operations that declare a column of either kind
\* or set its flags.
NextDeclare ==
  \/ \E model \in Models, property \in Names, name \in Aliases :
       Alias(model, property, name)
  \/ \E model \in Models, property \in Names : Required(model, property)
  \/ \E model \in Models, property \in Names : ReadOnly(model, property)
  \/ \E model \in Models, property \in Names : WriteOnly(model, property)
  \/ \E model \in Models, property \in Names, range \in Ranges :
       String(model, property, range[1], range[2])
  \/ \E localModel \in Models, property \in Names, args \in JoinArgs,
        match \in Matches :
       Join(localModel, property, args[1], args[2], args[3], match)
  \/ \E localModel \in Models, property \in Names, args \in JoinArgs,
        filter \in Matches :
       JoinAll(localModel, property, args[1], args[2], args[3], filter)

SpecDeclare == Init /\ [][NextDeclare]_vars

\* Declarations followed by reads, and by what a caller does to what it read.
NextRead ==
  \/ \E model \in Models, property \in Names, range \in Ranges :
       String(model, property, range[1], range[2])
  \/ \E model \in Models, property \in Names, views \in ViewLists :
       Views(model, property, views)
  \/ \E model \in Models, property \in Names : Primary(model, property)
  \/ \E localModel \in Models, property \in Names, args \in JoinArgs,
        match \in Matches :
       Join(localModel, property, args[1], args[2], args[3], match)
  \/ \E model \in Models, views \in RowViews : ReadRealRow(model, views)
  \/ \E model \in Models, views \in RowViews : ReadVirtualRow(model, views)
  \/ \E model \in Models, name \in Names : ReadRealColumn(model, name)
  \/ \E model \in Models : ReadPrimaryColumn(model)
  \/ \E i \in 1..Cardinality(Names), how \in Mutations : CallerMutates(i, how)

SpecRead == Init /\ [][NextRead]_vars

\* The inputs of the materializer: {}, {a: "x"}, {a: {b: "x"}}, {a: [{b: "x"}]}.
Entries ==
  {Obj(<<>>),
   Obj(<<[k |-> "a", v |-> Str("x")]>>),
   Obj(<<[k |-> "a", v |-> Obj(<<[k |-> "b", v |-> Str("x")]>>)]>>),
   Obj(<<[k |-> "a", v |-> Arr(<<Obj(<<[k |-> "b", v |-> Str("x")]>>)>>)]>>)}

\* [{a: "x"}] and [{}, {a: "x"}]
EntryLists ==
  {<<Obj(<<[k |-> "a", v |-> Str("x")]>>)>>,
   <<Obj(<<>>), Obj(<<[k |-> "a", v |-> Str("x")]>>)>>}

\* {k: {a: "x"}}, {k: {}, l: {a: "x"}} and {k: undefined, l: {a: "x"}}
EntryMaps ==
  {Obj(<<[k |-> "k", v |-> Obj(<<[k |-> "a", v |-> Str("x")]>>)]>>),
   Obj(<<[k |-> "k", v |-> Obj(<<>>)],
         [k |-> "l", v |-> Obj(<<[k |-> "a", v |-> Str("x")]>>)]>>),
   Obj(<<[k |-> "k", v |-> Nothing],
         [k |-> "l", v |-> Obj(<<[k |-> "a", v |-> Str("x")]>>)]>>)}

\* Declarations of scalar and nested columns and of their flags, followed by
\* calls of the materializer.
NextInputer ==
  \/ \E model \in Models, property \in Names : Required(model, property)
  \/ \E model \in Models, property \in Names : ReadOnly(model, property)
  \/ \E model \in Models, property \in Names :
       String(model, property, Undef, Undef)
  \/ \E scope \in Models, property \in Names, model \in Models :
       Array(scope, property, model)
  \/ \E scope \in Models, property \in Names, model \in Models :
       Map(scope, property, model)
  \/ \E scope \in Models, property \in Names, model \in Models :
       Object(scope, property, model)
  \/ \E model \in Models, entry \in Entries : create(model, entry)
  \/ \E model \in Models, entry \in Entries : createFull(model, entry)
  \/ \E model \in Models, entries \in EntryLists : createArray(model, entries)
  \/ \E model \in Models, entries \in EntryLists : createFullArray(model, entries)
  \/ \E model \in Models, entry \in EntryMaps : createMap(model, entry)
  \/ \E model \in Models, entry \in EntryMaps : createFullMap(model, entry)

SpecInputer == Init /\ [][NextInputer]_vars

\* Declarations of real and virtual columns, and the operations that set a
\* property of a column of either kind.
NextMerge ==
  \/ \E model \in Models, property \in Names, name \in Aliases :
       Alias(model, property, name)
  \/ \E model \in Models, property \in Names :
       String(model, property, Undef, Undef)
  \/ \E localModel \in Models, property \in Names, args \in JoinArgs,
        match \in Matches :
       Join(localModel, property, args[1], args[2], args[3], match)
  \/ \E model \in Models, property \in Names, views \in ViewLists :
       Views(model, property, views)
  \/ \E model \in Models, property \in Names, callback \in Converters :
       Convert(model, property, callback)
  \/ \E model \in Models, property \in Names : Required(model, property)
  \/ \E model \in Models, property \in Names : Hidden(model, property)

SpecMerge == Init /\ [][NextMerge]_vars

\* Declarations of scalar and array columns, and joins on them.
NextJoin ==
  \/ \E model \in Models, property \in Names :
       String(model, property, Undef, Undef)
  \/ \E scope \in Models, property \in Names, model \in Models :
       Array(scope, property, model)
  \/ \E localModel \in Models, property \in Names, args \in JoinArgs,
        match \in Matches :
       Join(localModel, property, args[1], args[2], args[3], match)
  \/ \E localModel \in Models, property \in Names, args \in JoinArgs,
        filter \in Matches :
       JoinAll(localModel, property, args[1], args[2], args[3], filter)

SpecJoin == Init /\ [][NextJoin]_vars

\* Declarations of storages, columns and primaries, and every read.
NextLookup ==
  \/ \E model \in Models, name \in StorageNames : Entity(model, name)
  \/ \E model \in Models, property \in Names :
       String(model, property, Undef, Undef)
  \/ \E model \in Models, property \in Names : Primary(model, property)
  \/ \E model \in Models, views \in RowViews : ReadRealRow(model, views)
  \/ \E model \in Models, views \in RowViews : ReadVirtualRow(model, views)
  \/ \E model \in Models, name \in Names : ReadRealColumn(model, name)
  \/ \E model \in Models : ReadPrimaryColumn(model)
  \/ \E model \in Models : ReadStorage(model)

SpecLookup == Init /\ [][NextLookup]_vars

\* The view lists a row is requested with: none, the wildcard, the name of a
\* column, a declared view, and two views of which the second is declared.
ViewRequests == {<<>>, <<ViewALL>>, <<"a">>, <<"public">>, <<"b", "public">>}

\* Declarations of real and virtual columns and of their views, followed by
\* reads of the rows under a list of views.
NextViews ==
  \/ \E model \in Models, property \in Names :
       String(model, property, Undef, Undef)
  \/ \E model \in Models, property \in Names, views \in ViewLists :
       Views(model, property, views)
  \/ \E localModel \in Models, property \in Names, args \in JoinArgs,
        match \in Matches :
       Join(localModel, property, args[1], args[2], args[3], match)
  \/ \E model \in Models, views \in ViewRequests : ReadRealRow(model, views)
  \/ \E model \in Models, views \in ViewRequests : ReadVirtualRow(model, views)

SpecViews == Init /\ [][NextViews]_vars

\* The annotations that may be the first of a model, and the reads of its storage.
NextEntity ==
  \/ \E model \in Models, name \in StorageNames : Entity(model, name)
  \/ \E model \in Models, property \in Names : Primary(model, property)
  \/ \E model \in Models, property \in Names :
       String(model, property, Undef, Undef)
  \/ \E model \in Models, property \in Names, views \in ViewLists :
       Views(model, property, views)
  \/ \E localModel \in Models, property \in Names, args \in JoinArgs,
        match \in Matches :
       Join(localModel, property, args[1], args[2], args[3], match)
  \/ \E localModel \in Models, property \in Names, args \in JoinArgs,
        filter \in Matches :
       JoinAll(localModel, property, args[1], args[2], args[3], filter)
  \/ \E model \in Models : ReadStorage(model)
  \/ \E model \in Models, views \in RowViews : ReadRealRow(model, views)

SpecEntity == Init /\ [][NextEntity]_vars

\* Every annotation that pushes a format, on the real column a of one model and
\* (the joins) on its virtual column b, and the annotations that push none.
NextFormats ==
  \/ Id("Person", "a")
  \/ Null("Person", "a")
  \/ Binary("Person", "a")
  \/ Boolean("Person", "a")
  \/ Integer("Person", "a", Undef, Undef)
  \/ Decimal("Person", "a", Undef, Undef)
  \/ Number("Person", "a", Undef, Undef)
  \/ String("Person", "a", Undef, Undef)
  \/ \E values \in Enumerations : Enumeration("Person", "a", values)
  \/ \E pattern \in Patterns : Pattern("Person", "a", pattern)
  \/ Timestamp("Person", "a")
  \/ Date("Person", "a")
  \/ Array("Person", "a", "Address")
  \/ Map("Person", "a", "Address")
  \/ Object("Person", "a", "Address")
  \/ \E property \in Names, match \in Matches :
       Join("Person", property, "a", "Person", "a", match)
  \/ \E property \in Names, filter \in Matches :
       JoinAll("Person", property, "a", "Person", "a", filter)
  \/ \E name \in StorageNames : Entity("Person", name)
  \/ \E property \in Names : Primary("Person", property)
  \/ \E name \in Aliases : Alias("Person", "a", name)
  \/ \E property \in Names, views \in ViewLists : Views("Person", property, views)
  \/ \E property \in Names, callback \in Converters :
       Convert("Person", property, callback)
  \/ \E property \in Names : Required("Person", property)
  \/ \E property \in Names : Hidden("Person", property)
  \/ ReadOnly("Person", "a")
  \/ WriteOnly("Person", "a")

SpecFormats == Init /\ [][NextFormats]_vars

\* The property names of the columns whose default view is read: a letter, and
\* the identifier $.
ViewNames == {"a", "$"}

\* The single views a row is requested with.
SingleViews == {<<ViewALL>>, <<"a">>, <<"$">>, <<"public">>}

\* Columns with the default view and with declared views, read under one view.
NextDefaultView ==
  \/ \E model \in Models, property \in ViewNames :
       String(model, property, Undef, Undef)
  \/ \E model \in Models, property \in ViewNames, views \in ViewLists :
       Views(model, property, views)
  \/ \E model \in Models, views \in SingleViews : ReadRealRow(model, views)

SpecDefaultView == Init /\ [][NextDefaultView]_vars

\* Sequences whose elements are entries and sequences: [{a: "x"}],
\* [[{a: "x"}], {a: "x"}] and [[[{a: "x"}]]].
NestedLists ==
  {<<Obj(<<[k |-> "a", v |-> Str("x")]>>)>>,
   <<Arr(<<Obj(<<[k |-> "a", v |-> Str("x")]>>)>>),
     Obj(<<[k |-> "a", v |-> Str("x")]>>)>>,
   <<Arr(<<Arr(<<Obj(<<[k |-> "a", v |-> Str("x")]>>)>>)>>)>>}

\* The fields a nested column is materialized with: none, and the column a of
\* the entity nested under b.
NestedFieldLists == {<<>>, <<"b.a">>}

\* A scalar column a, a column b of nested entities that is real (Array) or
\* virtual and marked all (JoinAll), and the materialization of sequences.
NextNested ==
  \/ \E model \in Models : String(model, "a", Undef, Undef)
  \/ \E scope \in Models, model \in Models : Array(scope, "b", model)
  \/ \E localModel \in Models, model \in Models, filter \in Matches :
       JoinAll(localModel, "b", "a", model, "a", filter)
  \/ \E model \in Models, type \in {"real", "virtual"}, entries \in NestedLists,
        fields \in NestedFieldLists, required \in BOOLEAN :
       CreateValue(model, type, "b", Arr(entries), fields, required)
  \/ \E model \in Models, entries \in NestedLists : createArray(model, entries)
  \/ \E model \in Models, entries \in NestedLists : createFullArray(model, entries)

SpecNested == Init /\ [][NextNested]_vars

\* Annotations of the model, of its primary and of real and virtual columns of
\* two models, the joins referencing either model.
NextFrame ==
  \/ \E model \in Models, name \in StorageNames : Entity(model, name)
  \/ \E model \in Models, property \in Names : Primary(model, property)
  \/ \E model \in Models, property \in Names :
       String(model, property, Undef, Undef)
  \/ \E model \in Models, property \in Names : Required(model, property)
  \/ \E localModel \in Models, property \in Names, args \in JoinArgs,
        match \in Matches :
       Join(localModel, property, args[1], args[2], args[3], match)
  \/ \E localModel \in Models, property \in Names, args \in JoinArgs,
        filter \in Matches :
       JoinAll(localModel, property, args[1], args[2], args[3], filter)

SpecFrame == Init /\ [][NextFrame]_vars

\* The inputs of a materialization that descends: {a: "x"}, {b: {b: {a: "x"}}}
\* and {b: [{b: {a: "x"}}]}.
WalkEntries ==
  {Obj(<<[k |-> "a", v |-> Str("x")]>>),
   Obj(<<[k |-> "b", v |-> Obj(<<[k |-> "b",
                                   v |-> Obj(<<[k |-> "a", v |-> Str("x")]>>)]>>)]>>),
   Obj(<<[k |-> "b", v |-> Arr(<<Obj(<<[k |-> "b",
                                        v |-> Obj(<<[k |-> "a", v |-> Str("x")]>>)]>>)>>)]>>)}

\* The fields createEntity is applied to: every column, and the column b with
\* the column b of the entity nested under it.
WalkFields == {<<ViewALL>>, <<"b", "b.b">>}

\* Declarations of a scalar column a and of a nested column b that references
\* the model itself or the other model, then materializations that run call
\* by call. A materialization runs to its end before anything else happens.
NextWalk ==
  \/ /\ calls = <<>>
     /\ \/ \E model \in Models : String(model, "a", Undef, Undef)
        \/ \E scope \in Models, model \in Models : Object(scope, "b", model)
        \/ \E scope \in Models, model \in Models : Array(scope, "b", model)
        \/ \E scope \in Models, model \in Models : Map(scope, "b", model)
  \/ \E model \in Models, entry \in WalkEntries : StartCreate(model, entry)
  \/ \E model \in Models, entry \in WalkEntries : StartCreateFull(model, entry)
  \/ \E model \in Models, entry \in WalkEntries : StartCreateArray(model, <<entry>>)
  \/ \E model \in Models, entry \in WalkEntries : StartCreateMap(model, entry)
  \/ \E model \in Models, entry \in WalkEntries, fields \in WalkFields,
        required \in BOOLEAN :
       StartCreateEntity(model, entry, fields, required)
  \/ Run

\* The materializer is sequential code: a call that has started goes on.
SpecWalk == Init /\ [][NextWalk]_vars /\ WF_vars(Run)

\* The entry {a: "x"}, given alone, in a list and in a map.
OneEntry == Obj(<<[k |-> "a", v |-> Str("x")]>>)

\* Declarations of a scalar and of a nested column and of the required flag,
\* and every public call of the materializer, for a model with or without
\* storage.
NextCreate ==
  \/ \E model \in Models : String(model, "a", Undef, Undef)
  \/ \E model \in Models : Required(model, "a")
  \/ \E scope \in Models, model \in Models : Object(scope, "b", model)
  \/ \E model \in Models : create(model, OneEntry)
  \/ \E model \in Models : createFull(model, OneEntry)
  \/ \E model \in Models : createArray(model, <<OneEntry>>)
  \/ \E model \in Models : createFullArray(model, <<OneEntry>>)
  \/ \E model \in Models : createMap(model, Obj(<<[k |-> "k", v |-> OneEntry]>>))
  \/ \E model \in Models : createFullMap(model, Obj(<<[k |-> "k", v |-> OneEntry]>>))

SpecCreate == Init /\ [][NextCreate]_vars

(***************************************************************************)
(* Properties of the declaration phase.                                    *)
(***************************************************************************)
\* The operations that declare a real column, and those that declare a virtual one.
RealDeclaring ==
  {"Alias", "ReadOnly", "WriteOnly", "Id", "Null", "Binary", "Boolean", "Integer",
   "Decimal", "Number", "String", "Enumeration", "Pattern", "Timestamp", "Date",
   "Array", "Map", "Object"}

VirtualDeclaring == {"Join", "JoinAll"}

IsReal(model, name) == model \in DOMAIN storages /\ In(name, storages[model].real)

IsVirtual(model, name) == model \in DOMAIN storages /\ In(name, storages[model].virtual)

\* No name is a key of both the real and the virtual map of a storage.
KindsDisjoint ==
  \A model \in DOMAIN storages :
    \A i \in 1..Len(storages[model].real) :
      ~In(storages[model].real[i].name, storages[model].virtual)

\* A real column is declared under a name that is virtual: the step fails with
\* ColumnKindConflict. A join whose two sides resolve declares a virtual column
\* under a name that is real: it fails with ColumnKindConflict.
KindConflictRaised ==
  \A model \in Models, property \in Names :
    /\ (/\ last'.op \in RealDeclaring
        /\ last'.model = model
        /\ last'.property = property
        /\ IsVirtual(model, property))
         => last'.error = "ColumnKindConflict"
    /\ \A args \in JoinArgs, match \in Matches :
         (/\ \/ Join(model, property, args[1], args[2], args[3], match)
             \/ JoinAll(model, property, args[1], args[2], args[3], match)
          /\ IsReal(model, property)
          /\ IsReal(model, args[3])
          /\ IsReal(args[2], args[1]))
           => last'.error = "ColumnKindConflict"

\* C1: in every reachable registry no property name is in both the real and the
\* virtual map of a model, and a declaration of the other kind under a name
\* already taken fails with ColumnKindConflict.
C1_KindsExclusive == []KindsDisjoint /\ [][KindConflictRaised]_vars

\* C1, its case: a real column was declared under the name of a virtual column of
\* the model, and the declaration failed with ColumnKindConflict.
C1_Witness ==
  /\ last.op \in RealDeclaring
  /\ last.error = "ColumnKindConflict"
  /\ IsVirtual(last.model, last.property)

\* C2: no column of the registry has readOnly and writeOnly both set, also in the
\* state an annotation that failed with ReadWriteConflict leaves behind.
C2_NeverReadOnlyAndWriteOnly ==
  \A model \in DOMAIN storages :
    \A i \in 1..Len(storages[model].real) :
      ~(storages[model].real[i].readOnly /\ storages[model].real[i].writeOnly)

\* The flag of the real column of that name, FALSE when there is no such column.
\* readOnly is set by ReadOnly alone and writeOnly by WriteOnly alone, and no
\* operation clears either: the flag tells whether the annotation was applied.
Flag(model, name, flag) ==
  IsReal(model, name) /\ Get(name, storages[model].real)[flag]

\* C3: on a property that is not a virtual column, WriteOnly fails with
\* ReadWriteConflict when ReadOnly was applied to the property before and
\* succeeds otherwise; ReadOnly fails with ReadWriteConflict when WriteOnly was
\* applied before and succeeds otherwise (so either alone, any number of times,
\* succeeds).
C3_ReadWriteConflict ==
  [][\A model \in Models, property \in Names :
       (/\ last'.model = model
        /\ last'.property = property
        /\ ~IsVirtual(model, property))
         => /\ last'.op = "WriteOnly" =>
                 last'.error = IF Flag(model, property, "readOnly")
                                 THEN "ReadWriteConflict" ELSE "none"
            /\ last'.op = "ReadOnly" =>
                 last'.error = IF Flag(model, property, "writeOnly")
                                 THEN "ReadWriteConflict" ELSE "none"]_vars

\* C3, its case: WriteOnly was applied to a read-only column and failed.
C3_Witness ==
  /\ last.op = "WriteOnly"
  /\ last.error = "ReadWriteConflict"
  /\ Flag(last.model, last.property, "readOnly")

\* What the read API returns for every model and name, in a registry.
Reads(st) ==
  [model \in Models |->
     [realRow |-> [views \in RowViews |-> getRealRow(st, model, views)],
      virtualRow |-> [views \in RowViews |-> getVirtualRow(st, model, views)],
      realColumn |-> [name \in Names |-> getRealColumn(st, model, name)],
      primaryColumn |-> getPrimaryColumn(st, model)]]

\* C4: no mutation a caller performs on a returned row or column changes what
\* the read API returns afterwards.
C4_ReturnedCopiesAreDefensive ==
  [][last'.op = "mutate" => Reads(storages') = Reads(storages)]_vars


(***************************************************************************)
(* Properties of the materializer.                                         *)
(***************************************************************************)
\* The real columns of a model, in declaration order.
RealColumns(model) ==
  IF model \in DOMAIN storages THEN storages[model].real ELSE <<>>

\* The input has a value for the column.
Supplied(entry, column) == Prop(entry, column.name).t # "undefined"

\* Some required, not read-only real column has no value in the input.
MissingFor(model, entry) ==
  \E i \in 1..Len(RealColumns(model)) :
    LET column == RealColumns(model)[i]
    IN column.required /\ ~column.readOnly /\ ~Supplied(entry, column)

\* The input has a value for some read-only real column.
ReadOnlyFor(model, entry) ==
  \E i \in 1..Len(RealColumns(model)) :
    LET column == RealColumns(model)[i]
    IN column.readOnly /\ Supplied(entry, column)

\* The input has a value for some real column with a nested model.
NestedFor(model, entry) ==
  \E i \in 1..Len(RealColumns(model)) :
    LET column == RealColumns(model)[i]
    IN column.model # Undef /\ Supplied(entry, column)

\* The column declares the model of a registered entity.
IsNested(column) == column.model # Undef /\ isEntity(storages, column.model)

\* C5: createFull fails with MissingRequiredField whenever a required, not
\* read-only real column has no value in the input, and never for the lack of
\* a column that is required and read-only (stated for inputs on which no other
\* failure is due: no read-only and no nested column is supplied).
C5_CreateFullMissingRequired ==
  (/\ last.op = "createFull"
   /\ last.model \in DOMAIN storages
   /\ ~ReadOnlyFor(last.model, last.input)
   /\ ~NestedFor(last.model, last.input))
  => (last.error = "MissingRequiredField" <=> MissingFor(last.model, last.input))

\* C6: create and createFull fail with ReadOnlyViolation whenever the input
\* supplies a value for a read-only real column, whatever its required flag
\* (stated for inputs on which no other failure is due).
C6_ReadOnlyViolation ==
  (/\ last.op \in {"create", "createFull"}
   /\ last.model \in DOMAIN storages
   /\ ReadOnlyFor(last.model, last.input)
   /\ last.op = "createFull" => ~MissingFor(last.model, last.input)
   /\ ~NestedFor(last.model, last.input))
  => last.error = "ReadOnlyViolation"

\* C7: a scalar supplied for a column that declares a nested entity fails with
\* UnsupportedShape.
C7_ScalarOnNestedColumn ==
  (/\ last.op = "create"
   /\ ~ReadOnlyFor(last.model, last.input)
   /\ \E i \in 1..Len(RealColumns(last.model)) :
        LET column == RealColumns(last.model)[i]
        IN IsNested(column) /\ Prop(last.input, column.name).t = "string")
  => last.error = "UnsupportedShape"

\* The scalar fields of the entity are the values the object has for the
\* scalar columns of the model.
FieldsFrom(entity, object, model) ==
  \A i \in 1..Len(RealColumns(model)) :
    LET column == RealColumns(model)[i]
        value == Prop(object, column.name)
    IN (column.model = Undef /\ ~column.readOnly /\ value.t = "string")
       => (/\ Prop(entity, column.name).t = "string"
           /\ Prop(entity, column.name).s = value.s)

\* The value is an entity of the model.
IsEntityOf(value, model) == value.t = "entity" /\ value.s = model

\* C8: a successful create builds the field of a nested column recursively: an
\* object on an OBJECT column gives one entity of the nested model with the
\* object's fields, an object on a MAP column a map with one entity per key,
\* a sequence on an ARRAY column a sequence with one entity per element.
C8_NestedMaterialization ==
  (last.op = "create" /\ last.error = "none")
  => \A i \in 1..Len(RealColumns(last.model)) :
       LET column == RealColumns(last.model)[i]
           value == Prop(last.input, column.name)
           made == Prop(result, column.name)
       IN IsNested(column)
          => /\ (value.t = "object" /\ Includes(column.formats, OBJECT))
                => (IsEntityOf(made, column.model)
                    /\ FieldsFrom(made, value, column.model))
             /\ (value.t = "object" /\ ~Includes(column.formats, OBJECT)
                   /\ Includes(column.formats, MAP))
                => (/\ made.t = "object"
                    /\ Len(made.v) = Len(value.v)
                    /\ \A j \in 1..Len(made.v) :
                         /\ made.v[j].k = value.v[j].k
                         /\ IsEntityOf(made.v[j].v, column.model))
             /\ (value.t = "array" /\ Includes(column.formats, ARRAY))
                => (/\ made.t = "array"
                    /\ Len(made.v) = Len(value.v)
                    /\ \A j \in 1..Len(made.v) :
                         /\ IsEntityOf(made.v[j].v, column.model)
                         /\ FieldsFrom(made.v[j].v, value.v[j].v, column.model))

\* C9: on a column with a nested entity, a sequence fails with UnsupportedShape
\* unless the formats include ARRAY, and an object fails with UnsupportedShape
\* unless the formats include OBJECT or MAP.
C9_ShapeMustMatchFormat ==
  (/\ last.op = "create"
   /\ ~ReadOnlyFor(last.model, last.input)
   /\ \E i \in 1..Len(RealColumns(last.model)) :
        LET column == RealColumns(last.model)[i]
            value == Prop(last.input, column.name)
        IN /\ IsNested(column)
           /\ \/ value.t = "array" /\ ~Includes(column.formats, ARRAY)
              \/ /\ value.t = "object"
                 /\ ~Includes(column.formats, OBJECT)
                 /\ ~Includes(column.formats, MAP))
  => last.error = "UnsupportedShape"

\* The entity has a field for every real column of the model the entry has a
\* value for, none of them read-only.
WalksEveryColumn(model, entry, entity) ==
  \A i \in 1..Len(RealColumns(model)) :
    LET column == RealColumns(model)[i]
    IN Supplied(entry, column) => (~column.readOnly /\ Has(entity, column.name))

\* C10: an empty field list selects every real column: what create, createFull,
\* createArray and createMap return has a field for every real column the
\* input has a value for, and none of those columns is read-only.
C10_EmptyFieldsMeansAll ==
  (last.error = "none" /\ last.model \in DOMAIN storages)
  => /\ last.op \in {"create", "createFull"}
        => WalksEveryColumn(last.model, last.input, result)
     /\ last.op = "createArray"
        => \A j \in 1..Len(result.v) :
             WalksEveryColumn(last.model, last.input.v[j].v, result.v[j].v)
     /\ last.op = "createMap"
        => \A j \in 1..Len(result.v) :
             WalksEveryColumn(last.model, last.input.v[j].v, result.v[j].v)

(***************************************************************************)
(* Properties of the read API.                                             *)
(***************************************************************************)
\* The views the last read was given.
Requested == [i \in 1..Len(last.input.v) |-> last.input.v[i].v.s]

\* The rule of visibility: the requested views contain the wildcard, or some
\* view pattern of the column matches some requested view.
Visible(column, requested) ==
  \/ \E i \in 1..Len(requested) : requested[i] = ViewALL
  \/ \E j \in 1..Len(column.views), i \in 1..Len(requested) :
       RegExpTest(column.views[j], requested[i])

\* The row holds exactly the visible columns of the map, in the map's order.
ExactlyVisible(row, map, requested) ==
  /\ \A i \in 1..Len(row) : In(row[i].name, map) /\ Get(row[i].name, map) = row[i]
  /\ \A i \in 1..Len(map) : In(map[i].name, row) <=> Visible(map[i], requested)
  /\ \A i, j \in 1..Len(row) : (i < j) => IndexOf(row[i].name, map) < IndexOf(row[j].name, map)

\* C11: getRealRow(T, V...) returns exactly the real columns of T that are
\* visible under V (V contains the wildcard, or a view pattern of the column
\* matches a view of V), and getVirtualRow(T, V...) exactly the visible virtual
\* columns; under the wildcard every column is returned.
C11_RowsHoldVisibleColumns ==
  (last.op \in {"getRealRow", "getVirtualRow"} /\ last.error = "none")
  => /\ result.type = (IF last.op = "getRealRow" THEN "real" ELSE "virtual")
     /\ ExactlyVisible(result.v, storages[last.model][result.type], Requested)

\* A row was read under views that select one of two columns and not the other.
C11_Witness ==
  /\ last.op \in {"getRealRow", "getVirtualRow"}
  /\ last.error = "none"
  /\ ~Includes(Requested, ViewALL)
  /\ Len(result.v) = 1
  /\ Len(storages[last.model][result.type]) = 2

(***************************************************************************)
(* Properties of Join and JoinAll.                                         *)
(***************************************************************************)
\* The step applies Join or JoinAll with these arguments.
JoinStep(localModel, property, args) ==
  \E match \in Matches :
    \/ Join(localModel, property, args[1], args[2], args[3], match)
    \/ JoinAll(localModel, property, args[1], args[2], args[3], match)

\* The local side of the join resolves: the local column is a real column of
\* the declaring model. The foreign side likewise, in the referenced model.
LocalResolves(localModel, args) == IsReal(localModel, args[3])

ForeignResolves(args) == IsReal(args[2], args[1])

\* C12: Join and JoinAll fail with UnknownColumn whenever the local column is
\* not a real column of the declaring model or the foreign column is not a
\* real column of the referenced model, and succeed only when both are.
C12_JoinUnknownColumn ==
  [][\A localModel \in Models, property \in Names, args \in JoinArgs :
       JoinStep(localModel, property, args)
       => /\ (~LocalResolves(localModel, args) \/ ~ForeignResolves(args))
               => last'.error = "UnknownColumn"
          /\ last'.error = "none"
               => (LocalResolves(localModel, args) /\ ForeignResolves(args))]_vars

\* C12 as the code has it: the side that does not resolve (the local one is
\* resolved first) fails with InvalidModel when its model has no storage and
\* with UnknownColumn when its model has one; the join succeeds only when both
\* sides resolve.
C12_JoinUnresolvedSide ==
  [][\A localModel \in Models, property \in Names, args \in JoinArgs :
       JoinStep(localModel, property, args)
       => /\ ~LocalResolves(localModel, args)
               => last'.error = IF localModel \in DOMAIN storages
                                  THEN "UnknownColumn" ELSE "InvalidModel"
          /\ (LocalResolves(localModel, args) /\ ~ForeignResolves(args))
               => last'.error = IF args[2] \in DOMAIN storages
                                  THEN "UnknownColumn" ELSE "InvalidModel"
          /\ (~LocalResolves(localModel, args) \/ ~ForeignResolves(args))
               => storages' = storages
          /\ last'.error = "none"
               => (LocalResolves(localModel, args) /\ ForeignResolves(args))]_vars

\* A join failed with UnknownColumn although the model it is applied to has
\* columns.
C12_Witness ==
  /\ last.op \in VirtualDeclaring
  /\ last.error = "UnknownColumn"
  /\ last.model \in DOMAIN storages
  /\ ~IsVirtual(last.model, last.property)

\* The formats and the all flag of the virtual column under that name before
\* the step: those of a column not yet declared are empty and unset.
FormatsBefore(model, name) ==
  IF IsVirtual(model, name) THEN Get(name, storages[model].virtual).formats ELSE <<>>

AllBefore(model, name) ==
  IsVirtual(model, name) /\ Get(name, storages[model].virtual).all

\* C18: the virtual column a Join or JoinAll leaves has multiple set exactly
\* when the formats of the local real column include ARRAY as the join is
\* applied; Join appends ARRAY when multiple and OBJECT otherwise and does not
\* set all, JoinAll appends ARRAY and sets all whatever multiple is.
C18_MultipleAndAll ==
  [][\A localModel \in Models, property \in Names, args \in JoinArgs,
        match \in Matches :
       LET local == Get(args[3], storages[localModel].real)
           multiple == Includes(local.formats, ARRAY)
           after == Get(property, storages'[localModel].virtual)
       IN /\ (/\ Join(localModel, property, args[1], args[2], args[3], match)
              /\ last'.error = "none")
             => (/\ after.multiple = multiple
                 /\ after.formats = Append(FormatsBefore(localModel, property),
                                           IF multiple THEN ARRAY ELSE OBJECT)
                 /\ after.all = AllBefore(localModel, property))
          /\ (/\ JoinAll(localModel, property, args[1], args[2], args[3], match)
              /\ last'.error = "none")
             => (/\ after.multiple = multiple
                 /\ after.formats = Append(FormatsBefore(localModel, property), ARRAY)
                 /\ after.all = TRUE)]_vars

\* A join has left a virtual column whose multiple and all flags differ.
C18_Witness ==
  /\ last.op \in VirtualDeclaring
  /\ last.error = "none"
  /\ LET column == Get(last.property, storages[last.model].virtual)
     IN column.multiple # column.all

(***************************************************************************)
(* Properties of the creation of storages and columns on demand.           *)
(***************************************************************************)
\* The operations that set a property of a column that exists.
Merging == {"Views", "Convert", "Required", "Hidden"}

\* The property a merging operation sets, and the values it may set it to.
MergedKey(op) ==
  CASE op = "Views" -> "views"
    [] op = "Convert" -> "converter"
    [] op = "Required" -> "required"
    [] op = "Hidden" -> "hidden"

MergedValues(op) ==
  CASE op = "Views" -> ViewLists
    [] op = "Convert" -> Converters
    [] op = "Required" -> {TRUE}
    [] op = "Hidden" -> {TRUE}

\* The column of either kind under that name in a registry.
HasColumn(st, model, name) ==
  model \in DOMAIN st /\ (In(name, st[model].real) \/ In(name, st[model].virtual))

ColumnOf(st, model, name) ==
  IF In(name, st[model].real)
    THEN Get(name, st[model].real)
    ELSE Get(name, st[model].virtual)

\* C13: every declarative operation, Views, Convert, Required and Hidden
\* included, applied to a property that has no storage or no column yet,
\* succeeds and leaves a storage and a column for the property.
C13_EveryOperationCreatesOnDemand ==
  [][(/\ last'.op \in RealDeclaring \cup Merging
      /\ ~HasColumn(storages, last'.model, last'.property))
     => (/\ last'.error = "none"
         /\ HasColumn(storages', last'.model, last'.property))]_vars

\* C13 as the code has it: an operation that declares a real column creates
\* the storage and the column on demand; Views, Convert, Required and Hidden
\* create the storage on demand but fail with UnknownColumn, creating no
\* column, when the property has no column of either kind, and otherwise set
\* their one property of the column that exists and leave the others alone.
C13_MergingNeedsTheColumn ==
  [][/\ (/\ last'.op \in RealDeclaring
         /\ ~HasColumn(storages, last'.model, last'.property))
        => (/\ last'.error = "none"
            /\ In(last'.property, storages'[last'.model].real))
     /\ (/\ last'.op \in Merging
         /\ ~HasColumn(storages, last'.model, last'.property))
        => (/\ last'.error = "UnknownColumn"
            /\ last'.model \in DOMAIN storages'
            /\ ~HasColumn(storages', last'.model, last'.property))
     /\ (/\ last'.op \in Merging
         /\ HasColumn(storages, last'.model, last'.property))
        => LET before == ColumnOf(storages, last'.model, last'.property)
               after == ColumnOf(storages', last'.model, last'.property)
               key == MergedKey(last'.op)
           IN /\ last'.error = "none"
              /\ after[key] \in MergedValues(last'.op)
              /\ \A k \in DOMAIN before : k # key => after[k] = before[k]]_vars

\* Views, Convert, Required or Hidden was the first operation on a property: it
\* failed, and left a storage without a column for the property.
C13_Witness ==
  /\ last.op \in Merging
  /\ last.error = "UnknownColumn"
  /\ last.model \in DOMAIN storages
  /\ ~HasColumn(storages, last.model, last.property)

(***************************************************************************)
(* Properties of the materializer, continued.                              *)
(***************************************************************************)
\* Every real column of the model is scalar, writable and without converter.
PlainColumns(model) ==
  \A i \in 1..Len(RealColumns(model)) :
    LET column == RealColumns(model)[i]
    IN column.model = Undef /\ ~column.readOnly /\ column.converter = Undef

\* C14: for a model whose real columns are all scalar, writable and without
\* converter, the entity create returns has, for every real column the input
\* has a value for, a field with exactly that value, and has no field under a
\* key that is not a real column.
C14_RoundTrip ==
  (/\ last.op = "create"
   /\ last.model \in DOMAIN storages
   /\ PlainColumns(last.model))
  => /\ last.error = "none"
     /\ \A i \in 1..Len(RealColumns(last.model)) :
          LET column == RealColumns(last.model)[i]
          IN Supplied(last.input, column)
             => (/\ Has(result, column.name)
                 /\ Prop(result, column.name) = Prop(last.input, column.name))
     /\ \A j \in 1..Len(result.v) : In(result.v[j].k, RealColumns(last.model))

\* C15: create never fails with MissingRequiredField: a real column the input
\* has no value for, required or not, is left unset on the entity returned, and
\* create of the empty record succeeds for a registered model.
C15_CreateToleratesMissing ==
  last.op = "create"
  => /\ last.error # "MissingRequiredField"
     /\ (last.model \in DOMAIN storages /\ Len(last.input.v) = 0)
          => last.error = "none"
     /\ (last.model \in DOMAIN storages /\ last.error = "none")
          => \A i \in 1..Len(RealColumns(last.model)) :
               LET column == RealColumns(last.model)[i]
               IN ~Supplied(last.input, column) => ~Has(result, column.name)

\* create has returned an entity for an input without a value for a required,
\* writable column of the model.
C15_Witness ==
  /\ last.op = "create"
  /\ last.error = "none"
  /\ MissingFor(last.model, last.input)

\* The calls that materialize a list, and those that materialize a map.
ListCalls == {"createArray", "createFullArray"}

MapCalls == {"createMap", "createFullMap"}

\* What create (createFull, for the full calls) makes of one entry.
Materialized(op, model, entry) ==
  createEntity(storages, model, entry, <<>>, op \in {"createFullArray", "createFullMap"})

\* The properties of an object whose value is not undefined, in order.
RECURSIVE DefinedPairs(_)
DefinedPairs(pairs) ==
  IF pairs = <<>> THEN <<>>
  ELSE IF Head(pairs).v.t = "undefined"
    THEN DefinedPairs(Tail(pairs))
    ELSE <<Head(pairs)>> \o DefinedPairs(Tail(pairs))

\* The list returned has the length of the input and holds, at each position,
\* what create makes of the entry at that position.
ListElementWise ==
  /\ result.t = "array"
  /\ Len(result.v) = Len(last.input.v)
  /\ \A i \in 1..Len(result.v) :
       result.v[i].v = Materialized(last.op, last.model, last.input.v[i].v)

\* The map returned holds, under each of the given keys and in their order,
\* what create makes of the value of the input under that key.
MapKeyWise(pairs) ==
  /\ result.t = "object"
  /\ Len(result.v) = Len(pairs)
  /\ \A i \in 1..Len(result.v) :
       /\ result.v[i].k = pairs[i].k
       /\ result.v[i].v = Materialized(last.op, last.model, pairs[i].v)

\* C16: createArray and createFullArray return a list of the length of the
\* input whose i-th element is the materialization of the i-th entry; createMap
\* and createFullMap return a map whose keys are exactly the keys of the input,
\* each with the materialization of the input's value under it.
C16_ElementWiseAllKeys ==
  last.error = "none"
  => /\ last.op \in ListCalls => ListElementWise
     /\ last.op \in MapCalls => MapKeyWise(last.input.v)

\* C16 as the code has it: the map returned has the keys of the input whose
\* value is not undefined; a key whose value is undefined is left out.
C16_ElementWiseDefinedKeys ==
  last.error = "none"
  => /\ last.op \in ListCalls => ListElementWise
     /\ last.op \in MapCalls => MapKeyWise(DefinedPairs(last.input.v))

\* A map was materialized from an input with a key whose value is undefined
\* and a key whose value is an entry.
C16_Witness ==
  /\ last.op \in MapCalls
  /\ last.error = "none"
  /\ Len(DefinedPairs(last.input.v)) < Len(last.input.v)
  /\ Len(result.v) > 0

(***************************************************************************)
(* Properties of the primary column.                                       *)
(***************************************************************************)
\* C17: the primary of a storage, once set, names a real column of the
\* storage; getPrimaryColumn of a registered model fails with MissingPrimary
\* if and only if no Primary was applied to the model (Primary alone sets the
\* primary and nothing clears it), and otherwise returns the real column the
\* primary names.
C17_PrimaryNamesRealColumn ==
  /\ \A model \in DOMAIN storages :
       storages[model].primary # Undef
       => In(storages[model].primary, storages[model].real)
  /\ (last.op = "getPrimaryColumn" /\ last.model \in DOMAIN storages)
       => IF storages[last.model].primary = Undef
            THEN last.error = "MissingPrimary"
            ELSE /\ last.error = "none"
                 /\ result.type = "real"
                 /\ result.v[1].name = storages[last.model].primary

(***************************************************************************)
(* Properties of the values the read API has returned.                     *)
(***************************************************************************)
\* The operations that are annotations.
Annotations == RealDeclaring \cup VirtualDeclaring \cup Merging \cup {"Entity", "Primary"}

\* C19: a row or column a read returned is a snapshot: no annotation applied
\* afterwards changes it, the contents of its formats, validations and views
\* included.
C19_ReturnedValuesAreSnapshots ==
  [][(result.t = "row" /\ last'.op \in Annotations) => result'.v = result.v]_vars

\* The calls of the read API.
Lookups ==
  {"getRealRow", "getVirtualRow", "getRealColumn", "getPrimaryColumn", "getStorage"}

\* C20: each of getRealRow, getVirtualRow, getRealColumn, getPrimaryColumn and
\* getStorage, called for a model that has no storage, fails with InvalidModel
\* and creates no storage: isEntity of the model stays false.
C20_InvalidModel ==
  [][(last'.op \in Lookups /\ ~isEntity(storages, last'.model))
     => (/\ last'.error = "InvalidModel"
         /\ ~isEntity(storages', last'.model)
         /\ storages' = storages)]_vars

\* The name of the storage was asked of a model without storage, while another
\* model has one, and the call failed.
C20_Witness ==
  /\ last.op = "getStorage"
  /\ last.error = "InvalidModel"
  /\ ~isEntity(storages, last.model)
  /\ \E model \in Models : isEntity(storages, model)

(***************************************************************************)
(* Properties of the lifetime of a storage.                                *)
(***************************************************************************)
\* The step applies an annotation to the model or to one of its properties.
AnnotationOf(model) == last'.op \in Annotations /\ last'.model = model

\* isEntity tells whether the model has a storage, and is false of every model
\* before the first step.
EntityIffStorage ==
  /\ \A model \in Models : isEntity(storages, model) <=> model \in DOMAIN storages
  /\ steps = 0 => \A model \in Models : ~isEntity(storages, model)

\* C21: isEntity(T) is true if and only if T has a storage: it is false before
\* any annotation is applied to T or to a property of T, true after the first
\* such annotation, whichever it is, and true from then on.
C21_EntityFromFirstAnnotation ==
  /\ []EntityIffStorage
  /\ [][\A model \in Models :
          /\ isEntity(storages, model) => isEntity(storages', model)
          /\ AnnotationOf(model) => isEntity(storages', model)
          /\ ~AnnotationOf(model)
               => (isEntity(storages', model) <=> isEntity(storages, model))]_vars

\* C21 as the code has it: Join and JoinAll resolve their local column before
\* they touch the registry, so applied to a model without storage they fail
\* with InvalidModel and the model stays without storage; every other
\* annotation, also one that fails, leaves the model with a storage.
C21_EntityFromFirstStoring ==
  /\ []EntityIffStorage
  /\ [][\A model \in Models :
          /\ isEntity(storages, model) => isEntity(storages', model)
          /\ (AnnotationOf(model) /\ last'.op \notin VirtualDeclaring)
               => isEntity(storages', model)
          /\ (AnnotationOf(model) /\ last'.op \in VirtualDeclaring
                /\ ~isEntity(storages, model))
               => (last'.error = "InvalidModel" /\ ~isEntity(storages', model))
          /\ ~AnnotationOf(model)
               => (isEntity(storages', model) <=> isEntity(storages, model))]_vars

\* A join was the only annotation applied to a model, which has no storage,
\* while the other model has one.
C21_Witness ==
  /\ last.op \in VirtualDeclaring
  /\ last.error = "InvalidModel"
  /\ ~isEntity(storages, last.model)
  /\ \E model \in Models : isEntity(storages, model) /\ storages[model].real = <<>>

(***************************************************************************)
(* Frame properties of the materializer.                                   *)
(***************************************************************************)
\* The public calls of the materializer.
Creations ==
  {"create", "createFull", "createArray", "createMap", "createFullArray",
   "createFullMap"}

DeclarationErrors == {"ColumnKindConflict", "ReadWriteConflict", "UnknownColumn"}

\* C23: an annotation that fails with ColumnKindConflict, ReadWriteConflict or
\* UnknownColumn leaves the registry as it was: it creates no storage and no
\* column, and changes no property or flag of a column.
C23_FailureLeavesRegistry ==
  [][(last'.op \in Annotations /\ last'.error \in DeclarationErrors)
     => storages' = storages]_vars

(***************************************************************************)
(* Properties of the formats and validations of a column.                  *)
(***************************************************************************)
\* The annotations that push a format, and the format each real one pushes.
FormatBearing ==
  {"Id", "Null", "Binary", "Boolean", "Integer", "Decimal", "Number", "String",
   "Enumeration", "Pattern", "Timestamp", "Date", "Array", "Map", "Object",
   "Join", "JoinAll"}

FormatOf(op) ==
  CASE op = "Id" -> {ID}
    [] op = "Null" -> {NULL}
    [] op = "Binary" -> {BINARY}
    [] op = "Boolean" -> {BOOLEANF}
    [] op = "Integer" -> {INTEGER}
    [] op = "Decimal" -> {DECIMAL}
    [] op = "Number" -> {NUMBER}
    [] op = "String" -> {STRINGF}
    [] op = "Enumeration" -> {ENUMERATION}
    [] op = "Pattern" -> {PATTERN}
    [] op = "Timestamp" -> {TIMESTAMP}
    [] op = "Date" -> {DATE}
    [] op = "Array" -> {ARRAY}
    [] op = "Map" -> {MAP}
    [] op = "Object" -> {OBJECT}
    [] op = "Join" -> {ARRAY, OBJECT}
    [] op = "JoinAll" -> {ARRAY}

\* The validator the annotations pair with a format.
ValidatorFor(format) ==
  CASE format \in {ID, BINARY} -> "Any"
    [] format = NULL -> "Null"
    [] format = BOOLEANF -> "Boolean"
    [] format = INTEGER -> "Integer"
    [] format = DECIMAL -> "Decimal"
    [] format = NUMBER -> "Number"
    [] format = STRINGF -> "String"
    [] format = ENUMERATION -> "Enumeration"
    [] format = PATTERN -> "Pattern"
    [] format \in {TIMESTAMP, DATE} -> "Timestamp"
    [] format \in {ARRAY, MAP, OBJECT} -> "InstanceOf"

ColumnKinds == {"real", "virtual"}

\* The two lists of every column have one length, and the validator at each
\* index is the one of the format at that index.
ListsAligned ==
  \A model \in DOMAIN storages, type \in ColumnKinds :
    \A i \in 1..Len(storages[model][type]) :
      LET column == storages[model][type][i]
      IN /\ Len(column.formats) = Len(column.validations)
         /\ \A j \in 1..Len(column.formats) :
              column.validations[j] = ValidatorFor(column.formats[j])

\* The two lists of the column of a kind under a name in a registry: empty when
\* there is no such column.
ListsOf(st, model, type, name) ==
  IF model \in DOMAIN st /\ In(name, st[model][type])
    THEN <<Get(name, st[model][type]).formats, Get(name, st[model][type]).validations>>
    ELSE <<<<>>, <<>>>>

\* The step appends one format of the operation, and its validator, to the
\* lists of the column the operation declares.
AppendsOnePair(model, name) ==
  LET type == IF last'.op \in VirtualDeclaring THEN "virtual" ELSE "real"
      before == ListsOf(storages, model, type, name)
      after == ListsOf(storages', model, type, name)
  IN \E format \in FormatOf(last'.op) :
       /\ after[1] = Append(before[1], format)
       /\ after[2] = Append(before[2], ValidatorFor(format))

HasDefaultView(column) == column.views = <<ExactRegExp(column.name)>>

\* A real row was read under one view: a column without declared views is in
\* the row exactly when the view is the wildcard or the name of the column, a
\* column with declared views exactly when the view is the wildcard or one of
\* its patterns matches the view.
DefaultViewIsOwnName ==
  (last.op = "getRealRow" /\ last.error = "none" /\ Len(Requested) = 1)
  => \A i \in 1..Len(storages[last.model].real) :
       LET column == storages[last.model].real[i]
           view == Requested[1]
       IN In(column.name, result.v)
          <=> IF HasDefaultView(column)
                THEN view = ViewALL \/ view = column.name
                ELSE \/ view = ViewALL
                     \/ \E j \in 1..Len(column.views) : RegExpTest(column.views[j], view)

\* A successful Views leaves the column with the patterns it was given.
LastViewsInForce ==
  \A model \in Models, property \in ViewNames, views \in ViewLists :
    (Views(model, property, views) /\ last'.error = "none")
    => ColumnOf(storages', model, property).views = views

\* C25: a column to which no Views was applied is visible under a view exactly
\* when the view is the wildcard or equals the column's own property name;
\* Views replaces the default by the patterns it declares, and the Views
\* applied last is the one in force.
C25_DefaultViewIsOwnName == []DefaultViewIsOwnName /\ [][LastViewsInForce]_vars

(***************************************************************************)
(* Properties of the strictness of nested entities.                        *)
(***************************************************************************)
\* The nested entities the value supplied for a nested column holds: the
\* object itself on an OBJECT column, the values of the map on a MAP column,
\* the elements of the sequence on an ARRAY column.
NestedEntries(column, value) ==
  IF value.t = "array" /\ Includes(column.formats, ARRAY)
    THEN {value.v[j].v : j \in 1..Len(value.v)}
  ELSE IF value.t = "object" /\ Includes(column.formats, OBJECT)
    THEN {value}
  ELSE IF value.t = "object" /\ Includes(column.formats, MAP)
    THEN {value.v[j].v : j \in 1..Len(value.v)}
  ELSE {}

\* Every value the input supplies is one its column takes: the column is not
\* read-only, and a nested column is given the shape of one of its formats.
WellShaped(model, entry) ==
  \A i \in 1..Len(RealColumns(model)) :
    LET column == RealColumns(model)[i]
        value == Prop(entry, column.name)
    IN Supplied(entry, column)
       => /\ ~column.readOnly
          /\ IsNested(column) => NestedEntries(column, value) # {}

\* Some nested entity of the input omits a required, writable column of its
\* own model.
NestedOmission(model, entry) ==
  \E i \in 1..Len(RealColumns(model)) :
    LET column == RealColumns(model)[i]
        value == Prop(entry, column.name)
    IN /\ IsNested(column)
       /\ \E nested \in NestedEntries(column, value) :
            nested.t = "object" /\ MissingFor(column.model, nested)

\* C26: createFull, called without narrowing of the fields, fails with
\* MissingRequiredField when a nested entity of a well-shaped input (an object
\* on an OBJECT column, a value of a MAP column, an element of an ARRAY column)
\* omits a required, writable column of its own model; create never fails for
\* a nested omission.
C26_NestedStrictness ==
  (/\ last.op \in {"create", "createFull"}
   /\ last.model \in DOMAIN storages
   /\ WellShaped(last.model, last.input)
   /\ NestedOmission(last.model, last.input))
  => last.error = (IF last.op = "createFull" THEN "MissingRequiredField" ELSE "none")

(***************************************************************************)
(* Properties of the materialization of sequences.                         *)
(***************************************************************************)
\* The entities made of the elements of a sequence, each by the materialization
\* of a single entity, whatever the element is.
EachAsEntity(model, entries, fields, required) ==
  Arr([j \in 1..Len(entries) |-> createEntity(storages, model, entries[j], fields, required)])

\* What is made of a sequence given to a column: with sub-sequences, an element
\* that is a sequence gives the sequence of the entities made of its elements;
\* without, every element gives one entity.
OneLevel(model, entries, fields, required, subsequences) ==
  Arr([i \in 1..Len(entries) |->
         IF subsequences /\ IsArray(entries[i])
           THEN EachAsEntity(model, Elements(entries[i]), fields, required)
           ELSE createEntity(storages, model, entries[i], fields, required)])

ViolationAt(column, entry, required) ==
  LET value == Prop(entry, column.name)
  IN IF value.t = "undefined"
       THEN IF required /\ column.required /\ ~column.readOnly
              THEN "MissingRequiredField" ELSE "none"
     ELSE IF column.readOnly THEN "ReadOnlyViolation"
     ELSE IF ~IsNested(column) THEN "none"
     ELSE IF value.t = "array"
       THEN IF Includes(column.formats, ARRAY) THEN "nested" ELSE "UnsupportedShape"
     ELSE IF value.t = "object"
       THEN IF Includes(column.formats, OBJECT) \/ Includes(column.formats, MAP)
              THEN "nested" ELSE "UnsupportedShape"
     ELSE "nested"

\* The violation of the first column of the row, in the row's order, at which
\* the input violates a rule.
RECURSIVE FirstViolation(_, _, _)
FirstViolation(columns, entry, required) ==
  IF columns = <<>> THEN "none"
  ELSE LET violation == ViolationAt(Head(columns), entry, required)
       IN IF violation = "none"
            THEN FirstViolation(Tail(columns), entry, required)
            ELSE violation

\* C28: the columns are examined in the order of the row and the first
\* violation found is the one raised: create and createFull fail with the
\* error of the first column, in that order, at which the input omits a
\* required column, supplies a read-only column or supplies a nested value of
\* the wrong shape.
C28_FirstViolationRaised ==
  (/\ last.op \in {"create", "createFull"}
   /\ last.model \in DOMAIN storages)
  => LET first == FirstViolation(RealColumns(last.model), last.input,
                                 last.op = "createFull")
     IN first \notin {"none", "nested"} => last.error = first

(***************************************************************************)
(* Frame properties of the successful declarative operations.              *)
(***************************************************************************)
\* The storage of a model in a registry, as a model without storage would have
\* it: no name, no primary, no column.
StorageOf(st, model) ==
  IF model \in DOMAIN st
    THEN st[model]
    ELSE [name |-> Undef, primary |-> Undef, real |-> <<>>, virtual |-> <<>>]

\* The columns of a map but the one under a name, in the map's order.
RECURSIVE Others(_, _)
Others(map, name) ==
  IF map = <<>> THEN <<>>
  ELSE IF Head(map).name = name
    THEN Others(Tail(map), name)
    ELSE <<Head(map)>> \o Others(Tail(map), name)

\* The annotations of a model as a whole.
OfTheModel == {"Entity", "Primary"}

\* C29: a successful annotation changes its own target alone. Every other
\* model keeps its storage, or its lack of one, also the model a Join or a
\* JoinAll references. The model annotated keeps every column but the one
\* annotated, in the same order; Entity and Primary keep every column. The
\* name of the storage is changed by Entity alone and its primary by Primary
\* alone (a storage created on demand has the name of the model and no
\* primary).
C29_OnlyTheTargetChanges ==
  [][\A target \in Models :
       (/\ last'.op \in Annotations
        /\ last'.error = "none"
        /\ last'.model = target)
       => LET before == StorageOf(storages, target)
              after == StorageOf(storages', target)
              name == IF last'.op \in OfTheModel THEN Undef ELSE last'.property
          IN /\ \A model \in Models \ {target} :
                  StorageOf(storages', model) = StorageOf(storages, model)
             /\ Others(after.real, name) = Others(before.real, name)
             /\ Others(after.virtual, name) = Others(before.virtual, name)
             /\ last'.op # "Primary"
                  => after.primary = before.primary
             /\ last'.op # "Entity"
                  => after.name = (IF target \in DOMAIN storages
                                     THEN before.name ELSE target)]_vars

\* A join was declared on a model that has a real column, and references the
\* other model, which has a storage and a real column of its own.
C29_Witness ==
  /\ last.op \in VirtualDeclaring
  /\ last.error = "none"
  /\ Get(last.property, storages[last.model].virtual).model # last.model
  /\ Len(storages[last.model].real) > 0
  /\ \E model \in Models \ {last.model} : Len(StorageOf(storages, model).real) > 0

(***************************************************************************)
(* Termination of the materializer.                                        *)
(***************************************************************************)
\* The largest of a set of numbers, 0 for the empty set.
Max(numbers) ==
  IF numbers = {} THEN 0 ELSE CHOOSE n \in numbers : \A m \in numbers : m <= n

\* The nesting depth of a value: 1 for a scalar and for an empty container,
\* one more than its deepest property or element for a container.
RECURSIVE Depth(_)
Depth(value) == 1 + Max({Depth(value.v[i].v) : i \in 1..Len(value.v)})

\* Each active call works on a value nested in the value of its caller, and
\* the outermost on the input: there are no more active calls than the input
\* has levels.
Descends ==
  /\ calls # <<>> => calls[1].value = last.input
  /\ \A i \in 1..(Len(calls) - 1) : Depth(calls[i + 1].value) < Depth(calls[i].value)
  /\ Len(calls) <= Depth(last.input)

\* What the operators of the materializer make of the arguments of a call.
Made(frame) ==
  CASE frame.fn = "createEntity" ->
         createEntity(storages, frame.model, frame.value, frame.fields, frame.required)
    [] frame.fn = "createArrayEntity" ->
         createArrayEntity(storages, frame.model, Elements(frame.value), frame.fields,
                           frame.required, frame.multiple)
    [] frame.fn = "createMapEntity" ->
         createMapEntity(storages, frame.model, frame.value.v, frame.fields,
                         frame.required, <<>>)

\* The step that ends a materialization ends it as the operators do: with the
\* error they give, or with none when they give a value.
EndsAsMade ==
  (calls # <<>> /\ calls' = <<>>)
  => last'.error = (IF Made(calls[1]).t = "error" THEN Made(calls[1]).s ELSE "none")

\* C30: every materialization terminates, with a value or an error, also for a
\* model whose nested column references the model itself or a cycle of
\* models: each call made within it works on a value nested one level deeper
\* in the input, so the depth of the recursion never exceeds the nesting depth
\* of the input, and a materialization that has started comes to its end.
C30_MaterializationTerminates ==
  /\ []Descends
  /\ [][EndsAsMade]_vars
  /\ (calls # <<>>) ~> (calls = <<>>)

\* Three calls of createEntity are active, each for the same model, whose
\* column b references the model itself.
C30_Witness ==
  /\ Len(calls) = 3
  /\ \A i \in 1..3 : calls[i].fn = "createEntity" /\ calls[i].model = calls[1].model
  /\ In("b", storages[calls[1].model].real)
  /\ Get("b", storages[calls[1].model].real).model = calls[1].model

====
